------------------------------ MODULE Spec2Model ------------------------------
(***************************************************************************)
(* A model of the website scraper: the crawl engines (scraper.py,          *)
(* scrapy_fallback.py), the categorizer (categorizer.py) and the /scrape   *)
(* handler with its digest assembler (api.py).                             *)
(*                                                                         *)
(* Python strings are modelled as sequences of one-character strings, so   *)
(* that slicing, splitting, stripping, substring tests and regular         *)
(* expressions are computed character by character as the code does.       *)
(* Characters that TLA+ cannot write are named: "NBSP" is U+00A0, "ZWSP"   *)
(* is U+200B, "SHY" is U+00AD, "EACUTE" is U+00E9 (two UTF-8 bytes).       *)
(***************************************************************************)
EXTENDS Integers, Sequences, FiniteSets, TLC

(***************************************************************************)
(* Characters and strings                                                  *)
(***************************************************************************)
UpperLetters == <<"A","B","C","D","E","F","G","H","I","J","K","L","M","N","O","P","Q","R","S","T","U","V","W","X","Y","Z">>

LowerLetters == <<"a","b","c","d","e","f","g","h","i","j","k","l","m","n","o","p","q","r","s","t","u","v","w","x","y","z">>

DigitChars == {"0","1","2","3","4","5","6","7","8","9"}

Range(f) == {f[i] : i \in DOMAIN f}

\* str.lower() on one character
Lower(c) ==
  IF \E i \in DOMAIN UpperLetters : UpperLetters[i] = c
    THEN LowerLetters[CHOOSE i \in DOMAIN UpperLetters : UpperLetters[i] = c]
    ELSE c

\* str.lower()
LowerStr(s) == [i \in 1..Len(s) |-> Lower(s[i])]

\* str.isalpha() on one character
IsAlphaChar(c) == c \in Range(UpperLetters) \cup Range(LowerLetters) \cup {"EACUTE"}

\* str.isalpha(): non-empty and every character alphabetic
IsAlpha(s) == Len(s) > 0 /\ \A i \in 1..Len(s) : IsAlphaChar(s[i])

\* the regular expression class \w
IsWordChar(c) == IsAlphaChar(c) \/ c \in DigitChars \/ c = "_"

\* Python whitespace: str.strip(), str.split() and the regular expression class \s
IsSpace(c) == c \in {" ", "\n", "\t", "\r", "NBSP"}

\* len(s.encode("utf-8")) of one character
CharBytes(c) == IF c \in {"NBSP", "SHY", "EACUTE"} THEN 2 ELSE IF c = "ZWSP" THEN 3 ELSE 1

\* len(s.encode("utf-8"))
Utf8Len(s) ==
  Len(s) + Cardinality({i \in 1..Len(s) : CharBytes(s[i]) = 2})
         + 2 * Cardinality({i \in 1..Len(s) : CharBytes(s[i]) = 3})

\* s[i-1:].startswith(p), i counted from 1
StartsWithAt(s, i, p) ==
  /\ i >= 1
  /\ i + Len(p) - 1 <= Len(s)
  /\ \A k \in 1..Len(p) : s[i + k - 1] = p[k]

\* s.startswith(p)
StartsWith(s, p) == StartsWithAt(s, 1, p)

\* p in s
Contains(s, p) == \E i \in 1..(Len(s) + 1) : StartsWithAt(s, i, p)

\* s.find(p) counted from 1, 0 when absent
Find(s, p) ==
  IF Contains(s, p)
    THEN CHOOSE i \in 1..(Len(s) + 1) :
           StartsWithAt(s, i, p) /\ \A j \in 1..(i - 1) : ~StartsWithAt(s, j, p)
    ELSE 0

\* s[a-1:b] for 1 <= a, clipped to the string
Slice(s, a, b) == IF a > b \/ a > Len(s) THEN << >> ELSE SubSeq(s, a, IF b > Len(s) THEN Len(s) ELSE b)

\* the Python slice s[:n], n of either sign
Prefix(s, n) ==
  IF n >= 0 THEN Slice(s, 1, n)
  ELSE IF Len(s) + n <= 0 THEN << >> ELSE SubSeq(s, 1, Len(s) + n)

\* the first position in s of a character of chars, Len(s) + 1 when none
FirstOf(s, chars) ==
  IF \E i \in 1..Len(s) : s[i] \in chars
    THEN CHOOSE i \in 1..Len(s) : s[i] \in chars /\ \A j \in 1..(i - 1) : s[j] \notin chars
    ELSE Len(s) + 1

\* the first position in s of a character outside chars, Len(s) + 1 when none
FirstNotIn(s, chars) ==
  IF \E i \in 1..Len(s) : s[i] \notin chars
    THEN CHOOSE i \in 1..Len(s) : s[i] \notin chars /\ \A j \in 1..(i - 1) : s[j] \in chars
    ELSE Len(s) + 1

\* the last position in s of a character outside chars, 0 when none
LastNotIn(s, chars) ==
  IF \E i \in 1..Len(s) : s[i] \notin chars
    THEN CHOOSE i \in 1..Len(s) : s[i] \notin chars /\ \A j \in (i + 1)..Len(s) : s[j] \in chars
    ELSE 0

\* s.lstrip(chars), chars a set
LStripIn(s, chars) == SubSeq(s, FirstNotIn(s, chars), Len(s))

\* s.rstrip(chars), chars a set
RStripIn(s, chars) == SubSeq(s, 1, LastNotIn(s, chars))

\* s.strip(chars)
StripIn(s, chars) == RStripIn(LStripIn(s, chars), chars)

SpaceChars == {" ", "\n", "\t", "\r", "NBSP"}

\* s.strip()
Strip(s) == StripIn(s, SpaceChars)

\* s.rstrip()
RStrip(s) == RStripIn(s, SpaceChars)

RECURSIVE SplitChar(_, _)
\* s.split(c) for a one-character separator: empty pieces are kept
SplitChar(s, c) ==
  IF \E i \in 1..Len(s) : s[i] = c
    THEN LET i == CHOOSE i \in 1..Len(s) : s[i] = c /\ \A j \in 1..(i - 1) : s[j] # c
         IN  <<SubSeq(s, 1, i - 1)>> \o SplitChar(SubSeq(s, i + 1, Len(s)), c)
    ELSE <<s>>

RECURSIVE SplitWords(_)
\* s.split(): pieces between runs of whitespace, no empty piece
SplitWords(s) ==
  LET t == LStripIn(s, SpaceChars) IN
  IF t = << >> THEN << >>
  ELSE IF \E i \in 1..Len(t) : IsSpace(t[i])
    THEN LET i == CHOOSE i \in 1..Len(t) : IsSpace(t[i]) /\ \A j \in 1..(i - 1) : ~IsSpace(t[j])
         IN  <<SubSeq(t, 1, i - 1)>> \o SplitWords(SubSeq(t, i, Len(t)))
    ELSE <<t>>

RECURSIVE Join(_, _)
\* sep.join(parts)
Join(parts, sep) ==
  IF parts = << >> THEN << >>
  ELSE IF Len(parts) = 1 THEN parts[1]
  ELSE parts[1] \o sep \o Join(Tail(parts), sep)

\* seq[:n] for n >= 0
Take(seq, n) == IF n >= Len(seq) THEN seq ELSE SubSeq(seq, 1, n)

\* the first position of x in seq, 0 when absent
IndexOf(seq, x) ==
  IF \E i \in 1..Len(seq) : seq[i] = x
    THEN CHOOSE i \in 1..Len(seq) : seq[i] = x /\ \A j \in 1..(i - 1) : seq[j] # x
    ELSE 0

(***************************************************************************)
(* urllib.parse.urlparse, for the URLs the program handles (no ";params")  *)
(***************************************************************************)
SchemeChars == Range(UpperLetters) \cup Range(LowerLetters) \cup DigitChars \cup {"+", "-", "."}

\* the position of the ":" ending a scheme, 0 when the URL has no scheme
SchemeEnd(url) ==
  LET i == Find(url, <<":">>) IN
  IF i > 1 /\ url[1] \in Range(UpperLetters) \cup Range(LowerLetters)
          /\ \A k \in 1..(i - 1) : url[k] \in SchemeChars
    THEN i ELSE 0

UrlScheme(url) == LowerStr(Slice(url, 1, SchemeEnd(url) - 1))

\* what follows the scheme and its ":"
UrlAfterScheme(url) == Slice(url, SchemeEnd(url) + 1, Len(url))

\* urlparse(url).netloc
UrlNetloc(url) ==
  LET r == UrlAfterScheme(url) IN
  IF StartsWith(r, <<"/","/">>)
    THEN LET t == Slice(r, 3, Len(r)) IN Slice(t, 1, FirstOf(t, {"/", "?", "#"}) - 1)
    ELSE << >>

\* urlparse(url).path
UrlPath(url) ==
  LET r == UrlAfterScheme(url)
      t == IF StartsWith(r, <<"/","/">>)
             THEN LET u == Slice(r, 3, Len(r)) IN Slice(u, FirstOf(u, {"/", "?", "#"}), Len(u))
             ELSE r
  IN Slice(t, 1, FirstOf(t, {"?", "#"}) - 1)

(***************************************************************************)
(* categorizer.py                                                          *)
(***************************************************************************)
\* Pass 1: URL-path keywords, in table order
URL_RULES == <<
  [cat |-> "pricing",    kws |-> <<<<"p","r","i","c","i","n","g">>, <<"p","l","a","n","s">>, <<"t","a","r","i","f">>, <<"p","r","i","c","e">>, <<"c","o","s","t">>, <<"s","u","b","s","c","r","i","p","t","i","o","n">>>>],
  [cat |-> "product",    kws |-> <<<<"p","r","o","d","u","c","t">>, <<"f","e","a","t","u","r","e","s">>, <<"s","o","l","u","t","i","o","n">>, <<"u","s","e","-","c","a","s","e">>, <<"p","l","a","t","f","o","r","m">>, <<"c","a","p","a","b","i","l","i","t","i","e","s">>>>],
  [cat |-> "about",      kws |-> <<<<"a","b","o","u","t">>, <<"t","e","a","m">>, <<"a","-","p","r","o","p","o","s">>, <<"q","u","i","-","s","o","m","m","e","s">>, <<"o","u","r","-","s","t","o","r","y">>, <<"o","u","r","-","t","e","a","m">>, <<"l","e","a","d","e","r","s","h","i","p">>>>],
  [cat |-> "contact",    kws |-> <<<<"c","o","n","t","a","c","t">>, <<"c","o","n","t","a","c","t","-","u","s">>, <<"c","o","n","t","a","c","t","e","z">>>>],
  [cat |-> "blog",       kws |-> <<<<"b","l","o","g">>, <<"a","r","t","i","c","l","e","s">>, <<"n","e","w","s">>, <<"a","c","t","u","a","l","i","t","e","s">>, <<"i","n","s","i","g","h","t","s">>, <<"r","e","s","o","u","r","c","e","s">>>>],
  [cat |-> "legal",      kws |-> <<<<"p","r","i","v","a","c","y">>, <<"t","e","r","m","s">>, <<"l","e","g","a","l">>, <<"c","g","u">>, <<"c","g","v">>, <<"m","e","n","t","i","o","n","s","-","l","e","g","a","l","e","s">>, <<"c","o","o","k","i","e">>, <<"g","d","p","r">>, <<"i","m","p","r","i","n","t">>, <<"d","i","s","c","l","a","i","m","e","r">>>>],
  [cat |-> "careers",    kws |-> <<<<"c","a","r","e","e","r","s">>, <<"j","o","b","s">>, <<"r","e","c","r","u","t","e","m","e","n","t">>, <<"h","i","r","i","n","g">>, <<"o","p","e","n","-","p","o","s","i","t","i","o","n","s">>, <<"j","o","i","n","-","u","s">>, <<"w","o","r","k","-","w","i","t","h","-","u","s">>>>],
  [cat |-> "faq",        kws |-> <<<<"f","a","q">>, <<"h","e","l","p">>, <<"s","u","p","p","o","r","t">>, <<"h","e","l","p","-","c","e","n","t","e","r">>, <<"k","n","o","w","l","e","d","g","e","-","b","a","s","e">>>>],
  [cat |-> "partners",   kws |-> <<<<"p","a","r","t","n","e","r">>, <<"p","a","r","t","e","n","a","i","r","e">>, <<"i","n","t","e","g","r","a","t","i","o","n","s">>, <<"m","a","r","k","e","t","p","l","a","c","e">>, <<"e","c","o","s","y","s","t","e","m">>>>],
  [cat |-> "case-study", kws |-> <<<<"c","a","s","e","-","s","t","u","d">>, <<"t","e","m","o","i","g","n","a","g","e">>, <<"s","u","c","c","e","s","s","-","s","t","o","r">>, <<"c","u","s","t","o","m","e","r","-","s","t","o","r">>, <<"c","l","i","e","n","t","s">>, <<"t","e","s","t","i","m","o","n","i","a","l">>>>],
  [cat |-> "press",      kws |-> <<<<"p","r","e","s","s">>, <<"p","r","e","s","s","e">>, <<"m","e","d","i","a">>, <<"n","e","w","s","r","o","o","m">>, <<"i","n","-","t","h","e","-","n","e","w","s">>>>],
  [cat |-> "investors",  kws |-> <<<<"i","n","v","e","s","t","o","r">>, <<"i","r">>, <<"s","h","a","r","e","h","o","l","d","e","r","s">>, <<"a","n","n","u","a","l","-","r","e","p","o","r","t">>, <<"g","o","v","e","r","n","a","n","c","e">>>>],
  [cat |-> "security",   kws |-> <<<<"s","e","c","u","r","i","t","y">>, <<"c","o","m","p","l","i","a","n","c","e">>, <<"t","r","u","s","t">>, <<"c","e","r","t","i","f","i","c","a","t","i","o","n","s">>, <<"s","o","c","2">>, <<"i","s","o","2","7","0","0","1">>>>],
  [cat |-> "api",        kws |-> <<<<"a","p","i">>, <<"d","o","c","s">>, <<"d","o","c","u","m","e","n","t","a","t","i","o","n">>, <<"d","e","v","e","l","o","p","e","r">>, <<"r","e","f","e","r","e","n","c","e">>, <<"c","h","a","n","g","e","l","o","g">>, <<"s","d","k">>>>] >>

\* Pass 2: content keywords, in table order
CONTENT_RULES == <<
  [cat |-> "pricing",    kws |-> <<<<"p","r","i","c","i","n","g">>, <<"p","r","i","c","e">>, <<"c","o","s","t">>, <<"s","u","b","s","c","r","i","p","t","i","o","n">>, <<"f","r","e","e"," ","t","r","i","a","l">>, <<"p","e","r"," ","m","o","n","t","h">>, <<"p","e","r"," ","y","e","a","r">>, <<"p","l","a","n">>>>],
  [cat |-> "product",    kws |-> <<<<"p","r","o","d","u","c","t">>, <<"f","e","a","t","u","r","e">>, <<"s","o","l","u","t","i","o","n">>, <<"h","o","w"," ","i","t"," ","w","o","r","k","s">>, <<"c","a","p","a","b","i","l","i","t","i","e","s">>, <<"p","l","a","t","f","o","r","m">>>>],
  [cat |-> "about",      kws |-> <<<<"a","b","o","u","t"," ","u","s">>, <<"o","u","r"," ","t","e","a","m">>, <<"o","u","r"," ","s","t","o","r","y">>, <<"w","h","o"," ","w","e"," ","a","r","e">>, <<"o","u","r"," ","m","i","s","s","i","o","n">>, <<"f","o","u","n","d","e","d">>>>],
  [cat |-> "contact",    kws |-> <<<<"c","o","n","t","a","c","t"," ","u","s">>, <<"g","e","t"," ","i","n"," ","t","o","u","c","h">>, <<"r","e","a","c","h"," ","o","u","t">>>>],
  [cat |-> "blog",       kws |-> <<<<"b","l","o","g">>, <<"a","r","t","i","c","l","e">>, <<"n","e","w","s">>, <<"l","a","t","e","s","t"," ","p","o","s","t">>, <<"i","n","s","i","g","h","t","s">>>>],
  [cat |-> "legal",      kws |-> <<<<"p","r","i","v","a","c","y"," ","p","o","l","i","c","y">>, <<"t","e","r","m","s"," ","o","f"," ","s","e","r","v","i","c","e">>, <<"t","e","r","m","s"," ","a","n","d"," ","c","o","n","d","i","t","i","o","n","s">>, <<"c","o","o","k","i","e"," ","p","o","l","i","c","y">>, <<"l","e","g","a","l"," ","n","o","t","i","c","e">>>>],
  [cat |-> "careers",    kws |-> <<<<"c","a","r","e","e","r","s">>, <<"o","p","e","n"," ","p","o","s","i","t","i","o","n","s">>, <<"j","o","i","n"," ","o","u","r"," ","t","e","a","m">>, <<"w","e","'","r","e"," ","h","i","r","i","n","g">>, <<"j","o","b"," ","o","p","e","n","i","n","g">>>>],
  [cat |-> "faq",        kws |-> <<<<"f","r","e","q","u","e","n","t","l","y"," ","a","s","k","e","d">>, <<"f","a","q">>, <<"h","e","l","p"," ","c","e","n","t","e","r">>, <<"c","o","m","m","o","n"," ","q","u","e","s","t","i","o","n","s">>>>],
  [cat |-> "partners",   kws |-> <<<<"p","a","r","t","n","e","r","s">>, <<"i","n","t","e","g","r","a","t","i","o","n","s">>, <<"m","a","r","k","e","t","p","l","a","c","e">>, <<"e","c","o","s","y","s","t","e","m">>>>],
  [cat |-> "case-study", kws |-> <<<<"c","a","s","e"," ","s","t","u","d","y">>, <<"c","u","s","t","o","m","e","r"," ","s","t","o","r","y">>, <<"s","u","c","c","e","s","s"," ","s","t","o","r","y">>, <<"t","e","s","t","i","m","o","n","i","a","l">>>>],
  [cat |-> "press",      kws |-> <<<<"p","r","e","s","s"," ","r","e","l","e","a","s","e">>, <<"i","n"," ","t","h","e"," ","n","e","w","s">>, <<"m","e","d","i","a"," ","c","o","v","e","r","a","g","e">>, <<"n","e","w","s","r","o","o","m">>>>],
  [cat |-> "investors",  kws |-> <<<<"i","n","v","e","s","t","o","r"," ","r","e","l","a","t","i","o","n","s">>, <<"s","h","a","r","e","h","o","l","d","e","r","s">>, <<"a","n","n","u","a","l"," ","r","e","p","o","r","t">>, <<"q","u","a","r","t","e","r","l","y"," ","r","e","s","u","l","t","s">>>>],
  [cat |-> "security",   kws |-> <<<<"s","e","c","u","r","i","t","y">>, <<"c","o","m","p","l","i","a","n","c","e">>, <<"t","r","u","s","t"," ","c","e","n","t","e","r">>, <<"c","e","r","t","i","f","i","c","a","t","i","o","n","s">>, <<"d","a","t","a"," ","p","r","o","t","e","c","t","i","o","n">>>>],
  [cat |-> "api",        kws |-> <<<<"a","p","i"," ","r","e","f","e","r","e","n","c","e">>, <<"d","o","c","u","m","e","n","t","a","t","i","o","n">>, <<"d","e","v","e","l","o","p","e","r"," ","g","u","i","d","e">>, <<"s","d","k">>, <<"a","p","i"," ","d","o","c","s">>>>] >>

\* Pass 3: URL segment prefixes
PRODUCT_PREFIXES == <<<<"w","h","y","-">>, <<"h","o","w","-","i","t","-","w","o","r","k","s">>, <<"w","h","a","t","-","i","s","-">>, <<"t","o","u","r">>, <<"d","e","m","o">>, <<"o","v","e","r","v","i","e","w">>>>

\* the category of the first rule of the table having a keyword inside text, "" when none
FirstRuleMatch(rules, text) ==
  LET hit(i) == \E k \in 1..Len(rules[i].kws) : Contains(text, rules[i].kws[k]) IN
  IF \E i \in 1..Len(rules) : hit(i)
    THEN rules[CHOOSE i \in 1..Len(rules) : hit(i) /\ \A j \in 1..(i - 1) : ~hit(j)].cat
    ELSE ""

\* path = urlparse(url).path.lower().strip("/")
NormalizedPath(url) == StripIn(LowerStr(UrlPath(url)), {"/"})

HomepagePaths == {<< >>, <<"h","o","m","e">>, <<"i","n","d","e","x">>, <<"i","n","d","e","x",".","h","t","m","l">>}

\* the homepage test of categorize_page
IsHomepagePath(path) == path \in HomepagePaths \/ (Len(path) <= 3 /\ IsAlpha(path))

\* f"{title} {h1} {meta} {headings_text}", each part lowercased
SearchableContent(content) ==
  LowerStr(content.title) \o <<" ">> \o LowerStr(content.h1) \o <<" ">>
    \o LowerStr(content.meta_description) \o <<" ">> \o LowerStr(Join(content.headings, <<" ">>))

\* a path segment starts with one of the product prefixes
SegmentHeuristic(path) ==
  \E s \in Range(SplitChar(path, "/")) : \E p \in Range(PRODUCT_PREFIXES) : StartsWith(s, p)

\* the passes with the content keywords tried before the URL keywords
CategorizeByRules_ContentFirst(path, content) ==
  LET byUrl == FirstRuleMatch(URL_RULES, path)
      byContent == FirstRuleMatch(CONTENT_RULES, SearchableContent(content))
  IN IF byContent # "" THEN byContent
     ELSE IF byUrl # "" THEN byUrl
     ELSE IF SegmentHeuristic(path) THEN "product"
     ELSE "other"

\* the passes after the homepage test
CategorizeByRules(path, content) ==
  LET byUrl == FirstRuleMatch(URL_RULES, path)
      byContent == FirstRuleMatch(CONTENT_RULES, SearchableContent(content))
  IN IF byUrl # "" THEN byUrl
     ELSE IF byContent # "" THEN byContent
     ELSE IF SegmentHeuristic(path) THEN "product"
     ELSE "other"

\* categorize_page with the keyword passes tried before the homepage test
categorize_page_KeywordsFirst(url, content) ==
  LET path == NormalizedPath(url) IN
  IF CategorizeByRules(path, content) # "other" THEN CategorizeByRules(path, content)
  ELSE IF IsHomepagePath(path) THEN "home" ELSE "other"

categorize_page(url, content) ==
  LET path == NormalizedPath(url) IN
  IF IsHomepagePath(path) THEN "home" ELSE CategorizeByRules(path, content)

(***************************************************************************)
(* The categorizer as a state machine: one call of categorize_page         *)
(***************************************************************************)
VARIABLES catUrl, catContent, catResult, catPc

catVars == <<catUrl, catContent, catResult, catPc>>

SiteBase == <<"h","t","t","p","s",":","/","/","a",".","c","o">>

\* URL paths the categorizer is run on
CatPaths == {
  << >>, <<"/">>, <<"/","h","o","m","e">>, <<"/","H","o","m","e","/">>, <<"/","i","n","d","e","x">>, <<"/","i","n","d","e","x",".","h","t","m","l">>, <<"/","f","r">>, <<"/","f","a","q">>, <<"/","a","p","i">>, <<"/","i","r">>,
  <<"/","p","r","i","c","i","n","g">>, <<"/","p","l","a","n","s","/","t","e","a","m">>, <<"/","a","b","o","u","t">>, <<"/","d","o","c","s","/","a","p","i">>, <<"/","w","h","y","-","u","s">>, <<"/","e","n","/","d","e","m","o">>, <<"/","m","i","s","c">>,
  <<"/","a","b","c","d">>, <<"/","x","1">>, <<"/","b","l","o","g">>, <<"/","h","o","m","e","/","p","r","i","c","i","n","g">>, <<"/","f","r","/">>, <<"/","e","EACUTE">>, <<"/","t","e","a","m","/","p","l","a","n","s">>,
  <<"/","S","u","p","p","o","r","t","/","P","r","e","s","s">> }

NoContent == [title |-> << >>, h1 |-> << >>, meta_description |-> << >>, headings |-> << >>]

\* page contents (title, h1, meta description, headings) the categorizer is run on
CatContents == {
  NoContent,
  [title |-> <<"P","r","i","c","i","n","g">>, h1 |-> << >>, meta_description |-> << >>, headings |-> << >>],
  [title |-> <<"A","c","m","e">>, h1 |-> <<"A","b","o","u","t"," ","U","s">>, meta_description |-> << >>, headings |-> << >>],
  [title |-> <<"A","c","m","e">>, h1 |-> << >>, meta_description |-> <<"O","u","r"," ","p","l","a","t","f","o","r","m">>, headings |-> <<<<"B","l","o","g">>, <<"F","A","Q">>>>],
  [title |-> <<"A","c","m","e">>, h1 |-> <<"H","e","l","l","o">>, meta_description |-> << >>, headings |-> <<<<"L","a","t","e","s","t">>, <<"P","o","s","t">>>>],
  [title |-> << >>, h1 |-> << >>, meta_description |-> << >>, headings |-> <<<<"A","P","I">>, <<"D","o","c","s">>>>] }

CatIdle == catUrl = << >> /\ catContent = NoContent /\ catResult = "" /\ catPc = "idle"

CatInit ==
  /\ catUrl \in {SiteBase \o p : p \in CatPaths}
  /\ catContent \in CatContents
  /\ catResult = ""
  /\ catPc = "start"

\* page["category"] = categorize_page(page["url"], page)
Categorize ==
  /\ catPc = "start"
  /\ catResult' = categorize_page(catUrl, catContent)
  /\ catPc' = "done"
  /\ UNCHANGED <<catUrl, catContent>>

(***************************************************************************)
(* scraper.py: text cleaning                                               *)
(***************************************************************************)
\* _INVISIBLE_RE: zero-width and invisible characters
InvisibleChars == {"ZWSP", "SHY"}

\* _WHITESPACE_RE: [ \t ]+
HorizontalSpace == {" ", "\t", "NBSP"}

\* _INVISIBLE_RE.sub(" ", text)
ReplaceInvisible(s) == [i \in 1..Len(s) |-> IF s[i] \in InvisibleChars THEN " " ELSE s[i]]

RECURSIVE CollapseWhitespace(_)
\* _WHITESPACE_RE.sub(" ", text): every maximal run becomes one space
CollapseWhitespace(s) ==
  LET i == FirstOf(s, HorizontalSpace) IN
  IF i > Len(s) THEN s
  ELSE SubSeq(s, 1, i - 1) \o <<" ">>
         \o CollapseWhitespace(LStripIn(SubSeq(s, i, Len(s)), HorizontalSpace))

RECURSIVE CollapseBlankLines(_)
\* re.sub(r"\n[ \t]*\n+", "\n", text)
CollapseBlankLines(s) ==
  LET i == FirstOf(s, {"\n"}) IN
  IF i > Len(s) THEN s
  ELSE LET rest == SubSeq(s, i + 1, Len(s))
           afterSpaces == LStripIn(rest, {" ", "\t"})
       IN SubSeq(s, 1, i)
            \o (IF afterSpaces # << >> /\ Head(afterSpaces) = "\n"
                  THEN CollapseBlankLines(LStripIn(afterSpaces, {"\n"}))
                  ELSE CollapseBlankLines(rest))

\* the regular expression \b between s[i-1] and s[i], i counted from 1
WordBoundary(s, i) ==
  LET before == i - 1 >= 1 /\ i - 1 <= Len(s) /\ IsWordChar(s[i - 1])
      after == i >= 1 /\ i <= Len(s) /\ IsWordChar(s[i])
  IN before # after

\* \bword\b matches at position i
WordAt(s, i, word) ==
  StartsWithAt(s, i, word) /\ WordBoundary(s, i) /\ WordBoundary(s, i + Len(word))

NullContinuations == {<<"a","n","d">>, <<"o","r">>, <<"p","o","i","n","t","e","r">>, <<"v","a","l","u","e">>, <<"c","h","e","c","k">>, <<"s","a","f","e","t","y">>}

\* the lookahead \s+(?:and|or|pointer|value|check|safety) at position i
NullLookahead(s, i) ==
  LET rest == Slice(s, i, Len(s))
      t == LStripIn(rest, SpaceChars)
  IN Len(t) < Len(rest) /\ \E w \in NullContinuations : StartsWith(t, w)

RECURSIVE RemoveUndefinedFrom(_, _)
\* re.sub(r"\bundefined\b", "", text), from position i
RemoveUndefinedFrom(s, i) ==
  LET hits == {j \in i..Len(s) : WordAt(s, j, <<"u","n","d","e","f","i","n","e","d">>)} IN
  IF hits = {} THEN Slice(s, i, Len(s))
  ELSE LET j == CHOOSE j \in hits : \A k \in hits : j <= k
       IN Slice(s, i, j - 1) \o RemoveUndefinedFrom(s, j + 9)

RECURSIVE RemoveNullFrom(_, _)
\* re.sub(r"\bnull\b(?!\s+(?:and|or|pointer|value|check|safety))", "", text), from position i
RemoveNullFrom(s, i) ==
  LET hits == {j \in i..Len(s) : WordAt(s, j, <<"n","u","l","l">>) /\ ~NullLookahead(s, j + 4)} IN
  IF hits = {} THEN Slice(s, i, Len(s))
  ELSE LET j == CHOOSE j \in hits : \A k \in hits : j <= k
       IN Slice(s, i, j - 1) \o RemoveNullFrom(s, j + 4)

_clean_text(text) ==
  LET t1 == ReplaceInvisible(text)
      t2 == CollapseWhitespace(t1)
      t3 == CollapseBlankLines(t2)
      t4 == RemoveUndefinedFrom(t3, 1)
      t5 == RemoveNullFrom(t4, 1)
  IN Strip(t5)

\* Boilerplate phrases (line-level removal if line < 80 chars)
BOILERPLATE_PHRASES == <<
  <<"g","e","t"," ","s","t","a","r","t","e","d">>, <<"l","e","a","r","n"," ","m","o","r","e">>, <<"r","e","a","d"," ","m","o","r","e">>, <<"s","i","g","n"," ","u","p">>, <<"s","t","a","r","t"," ","f","r","e","e"," ","t","r","i","a","l">>,
  <<"b","o","o","k"," ","a"," ","d","e","m","o">>, <<"r","e","q","u","e","s","t"," ","a"," ","d","e","m","o">>, <<"s","c","h","e","d","u","l","e"," ","a"," ","d","e","m","o">>, <<"t","r","y"," ","f","o","r"," ","f","r","e","e">>,
  <<"c","o","n","t","a","c","t"," ","s","a","l","e","s">>, <<"t","a","l","k"," ","t","o"," ","s","a","l","e","s">>, <<"w","a","t","c","h"," ","d","e","m","o">>, <<"s","e","e"," ","i","t"," ","i","n"," ","a","c","t","i","o","n">>,
  <<"s","t","a","r","t"," ","n","o","w">>, <<"j","o","i","n"," ","n","o","w">>, <<"s","u","b","s","c","r","i","b","e"," ","n","o","w">>, <<"d","o","w","n","l","o","a","d"," ","n","o","w">>,
  <<"a","c","c","e","p","t"," ","a","l","l"," ","c","o","o","k","i","e","s">>, <<"c","o","o","k","i","e"," ","p","o","l","i","c","y">>, <<"w","e"," ","u","s","e"," ","c","o","o","k","i","e","s">>,
  <<"a","c","c","e","p","t"," ","c","o","o","k","i","e","s">>, <<"m","a","n","a","g","e"," ","c","o","o","k","i","e","s">>, <<"c","o","o","k","i","e"," ","s","e","t","t","i","n","g","s">>,
  <<"s","k","i","p"," ","t","o"," ","m","a","i","n"," ","c","o","n","t","e","n","t">>, <<"s","k","i","p"," ","t","o"," ","f","o","o","t","e","r">>, <<"s","k","i","p"," ","t","o"," ","n","a","v","i","g","a","t","i","o","n">>,
  <<"s","k","i","p"," ","t","o"," ","c","o","n","t","e","n","t">>, <<"t","o","g","g","l","e"," ","n","a","v","i","g","a","t","i","o","n">>, <<"c","l","o","s","e"," ","m","e","n","u">>, <<"o","p","e","n"," ","m","e","n","u">>,
  <<"r","e","g","i","s","t","e","r"," ","n","o","w">>, <<"s","i","g","n"," ","i","n">>, <<"l","o","g"," ","i","n">>, <<"c","r","e","a","t","e"," ","a","c","c","o","u","n","t">> >>

\* _INLINE_CTA_RE alternatives, matched case-insensitively between word boundaries
INLINE_CTA == <<
  <<"g","e","t"," ","s","t","a","r","t","e","d">>, <<"l","e","a","r","n"," ","m","o","r","e">>, <<"r","e","a","d"," ","m","o","r","e">>, <<"s","i","g","n"," ","u","p">>, <<"b","o","o","k"," ","a"," ","d","e","m","o">>, <<"r","e","q","u","e","s","t"," ","a"," ","d","e","m","o">>,
  <<"r","e","g","i","s","t","e","r"," ","n","o","w">>, <<"s","t","a","r","t"," ","f","r","e","e"," ","t","r","i","a","l">>, <<"t","r","y"," ","f","o","r"," ","f","r","e","e">>, <<"c","o","n","t","a","c","t"," ","s","a","l","e","s">>, <<"t","a","l","k"," ","t","o"," ","s","a","l","e","s">>,
  <<"w","a","t","c","h"," ","d","e","m","o">>, <<"s","e","e"," ","i","t"," ","i","n"," ","a","c","t","i","o","n">>, <<"d","o","w","n","l","o","a","d"," ","n","o","w">>, <<"s","u","b","s","c","r","i","b","e"," ","n","o","w">>, <<"s","t","a","r","t"," ","n","o","w">>,
  <<"j","o","i","n"," ","n","o","w">>, <<"s","k","i","p"," ","t","o"," ","m","a","i","n"," ","c","o","n","t","e","n","t">>, <<"s","k","i","p"," ","t","o"," ","f","o","o","t","e","r">>, <<"s","k","i","p"," ","t","o"," ","n","a","v","i","g","a","t","i","o","n">>,
  <<"s","k","i","p"," ","t","o"," ","c","o","n","t","e","n","t">> >>

BoilerplateLineLimit == 80

\* the line-level test of _remove_boilerplate on one line
IsBoilerplateLine(line) ==
  LET lower == Strip(LowerStr(line)) IN
  \E k \in 1..Len(BOILERPLATE_PHRASES) :
    \/ BOILERPLATE_PHRASES[k] = lower
    \/ (Contains(lower, BOILERPLATE_PHRASES[k]) /\ Len(lower) < BoilerplateLineLimit)

RECURSIVE KeepLines(_)
\* the loop over lines: empty and boilerplate lines are dropped
KeepLines(lines) ==
  IF lines = << >> THEN << >>
  ELSE IF Strip(LowerStr(Head(lines))) = << >> \/ IsBoilerplateLine(Head(lines))
    THEN KeepLines(Tail(lines))
    ELSE <<Head(lines)>> \o KeepLines(Tail(lines))

\* the length of the _INLINE_CTA_RE match at position i, 0 when there is none
InlineCtaLen(s, i) ==
  LET low == LowerStr(s)
      hit(k) == StartsWithAt(low, i, INLINE_CTA[k]) /\ WordBoundary(s, i)
                  /\ WordBoundary(s, i + Len(INLINE_CTA[k]))
  IN IF \E k \in 1..Len(INLINE_CTA) : hit(k)
       THEN Len(INLINE_CTA[CHOOSE k \in 1..Len(INLINE_CTA) : hit(k) /\ \A j \in 1..(k - 1) : ~hit(j)])
       ELSE 0

RECURSIVE RemoveInlineCtaFrom(_, _)
\* _INLINE_CTA_RE.sub("", text), from position i
RemoveInlineCtaFrom(s, i) ==
  LET hits == {j \in i..Len(s) : InlineCtaLen(s, j) > 0} IN
  IF hits = {} THEN Slice(s, i, Len(s))
  ELSE LET j == CHOOSE j \in hits : \A k \in hits : j <= k
       IN Slice(s, i, j - 1) \o RemoveInlineCtaFrom(s, j + InlineCtaLen(s, j))

_remove_boilerplate(text) ==
  LET kept == Join(KeepLines(SplitChar(text, "\n")), <<"\n">>) IN
  Strip(CollapseWhitespace(RemoveInlineCtaFrom(kept, 1)))

(***************************************************************************)
(* Text cleaning as a state machine: text_preview of one page body         *)
(***************************************************************************)
VARIABLES textIn, textClean, textOut, textPc

textVars == <<textIn, textClean, textOut, textPc>>

ScenarioD == <<"G","e","t"," ","s","t","a","r","t","e","d"," ","t","o","d","a","y","."," ","O","u","r"," ","p","l","a","t","f","o","r","m"," ","h","e","l","p","s"," ","t","e","a","m","s"," ","s","h","i","p"," ","f","a","s","t","e","r",".">>

\* pieces the body texts are made of
TextFragments == <<
  ScenarioD,
  <<"O","u","r"," ","p","l","a","t","f","o","r","m"," ","h","e","l","p","s"," ","t","e","a","m","s"," ","s","h","i","p"," ","f","a","s","t","e","r",".">>,
  <<" ","L","e","a","r","n"," ","M","o","r","e"," ">>,
  <<"\n">>,
  <<"u","n","d","e","f","i","n","e","d"," ","n","u","l","l"," ","v","a","l","u","e"," ">>,
  <<"ZWSP","NBSP","\t">>,
  <<" ","W","e"," ","u","s","e"," ","c","o","o","k","i","e","s"," ","s","o"," ","t","h","a","t"," ","e","v","e","r","y"," ","t","e","a","m"," ","c","a","n"," ","g","e","t"," ","s","t","a","r","t","e","d"," ","w","i","t","h"," ","t","h","e"," ","p","r","o","d","u","c","t"," ","i","n"," ","a"," ","m","i","n","u","t","e"," ","o","r"," ","t","w","o",".">>,
  <<"S","i","g","n"," ","I","n">>,
  <<"n","u","l","l">> >>

MaxFragments == 2

RECURSIVE ConcatAll(_)
\* "".join(parts)
ConcatAll(parts) == IF parts = << >> THEN << >> ELSE Head(parts) \o ConcatAll(Tail(parts))

\* the body texts: up to MaxFragments pieces in a row
BodyTexts ==
  {ConcatAll([i \in DOMAIN f |-> TextFragments[f[i]]]) :
     f \in UNION {[1..n -> 1..Len(TextFragments)] : n \in 0..MaxFragments}}

TextIdle == textIn = << >> /\ textClean = << >> /\ textOut = << >> /\ textPc = "idle"

TextInit ==
  /\ textIn \in BodyTexts
  /\ textClean = << >>
  /\ textOut = << >>
  /\ textPc = "raw"

\* _clean_text(raw_text)
CleanText ==
  /\ textPc = "raw"
  /\ textClean' = _clean_text(textIn)
  /\ textPc' = "cleaned"
  /\ UNCHANGED <<textIn, textOut>>

\* text_preview = _remove_boilerplate(...)
RemoveBoilerplate ==
  /\ textPc = "cleaned"
  /\ textOut' = _remove_boilerplate(textClean)
  /\ textPc' = "done"
  /\ UNCHANGED <<textIn, textClean>>

(***************************************************************************)
(* api.py: sentences and their overlap                                     *)
(***************************************************************************)
MAX_OUTPUT_BYTES == 7800

\* Priority order for page categories (lower index = higher priority)
CATEGORY_PRIORITY == <<
  "home", "product", "pricing", "about", "api", "security",
  "faq", "case-study", "partners", "investors", "careers",
  "blog", "press", "contact", "legal", "other" >>

\* _CATEGORY_PRIORITY.index(category), counted from 0; the table's length when absent
_priority(category) ==
  IF IndexOf(CATEGORY_PRIORITY, category) = 0
    THEN Len(CATEGORY_PRIORITY)
    ELSE IndexOf(CATEGORY_PRIORITY, category) - 1

SentenceEnd == {".", "!", "?"}

RECURSIVE SplitAfterPunctuation_ConsumesPunctuation(_)
\* a split on [.!?]\s+ that swallows the punctuation mark
SplitAfterPunctuation_ConsumesPunctuation(s) ==
  LET cuts == {i \in 2..Len(s) : s[i - 1] \in SentenceEnd /\ IsSpace(s[i])} IN
  IF cuts = {} THEN <<s>>
  ELSE LET i == CHOOSE i \in cuts : \A k \in cuts : i <= k
       IN <<SubSeq(s, 1, i - 2)>>
            \o SplitAfterPunctuation_ConsumesPunctuation(LStripIn(SubSeq(s, i, Len(s)), SpaceChars))

RECURSIVE SplitAfterPunctuation(_)
\* re.split(r'(?<=[.!?])\s+', s)
SplitAfterPunctuation(s) ==
  LET cuts == {i \in 2..Len(s) : s[i - 1] \in SentenceEnd /\ IsSpace(s[i])} IN
  IF cuts = {} THEN <<s>>
  ELSE LET i == CHOOSE i \in cuts : \A k \in cuts : i <= k
       IN <<SubSeq(s, 1, i - 1)>>
            \o SplitAfterPunctuation(LStripIn(SubSeq(s, i, Len(s)), SpaceChars))

RECURSIVE StripNonEmpty(_)
\* [s.strip() for s in pieces if s.strip()]
StripNonEmpty(pieces) ==
  IF pieces = << >> THEN << >>
  ELSE IF Strip(Head(pieces)) = << >> THEN StripNonEmpty(Tail(pieces))
  ELSE <<Strip(Head(pieces))>> \o StripNonEmpty(Tail(pieces))

_split_sentences(text) == StripNonEmpty(SplitAfterPunctuation(Strip(text)))

\* set(a.lower().split())
WordSet(a) == Range(SplitWords(LowerStr(a)))

Min(a, b) == IF a <= b THEN a ELSE b

\* the word-overlap ratio, as the fraction num/den (0.0 is 0/1)
_sentence_overlap(a, b) ==
  IF WordSet(a) = {} \/ WordSet(b) = {}
    THEN [num |-> 0, den |-> 1]
    ELSE [num |-> Cardinality(WordSet(a) \cap WordSet(b)),
          den |-> Min(Cardinality(WordSet(a)), Cardinality(WordSet(b)))]

\* ratio > 0.5
ExceedsHalf(ratio) == 2 * ratio.num > ratio.den

\* any(_sentence_overlap(sentence, seen) > 0.5 for seen in pool)
OverlapsAny(sentence, pool) ==
  \E k \in 1..Len(pool) : ExceedsHalf(_sentence_overlap(sentence, pool[k]))

RECURSIVE DedupLoop_NoPoolUpdate(_, _, _)
\* the loop without existing_sentences.append(sentence)
DedupLoop_NoPoolUpdate(sentences, unique, pool) ==
  IF sentences = << >> THEN [unique |-> unique, pool |-> pool]
  ELSE IF OverlapsAny(Head(sentences), pool)
    THEN DedupLoop_NoPoolUpdate(Tail(sentences), unique, pool)
    ELSE DedupLoop_NoPoolUpdate(Tail(sentences), Append(unique, Head(sentences)), pool)

RECURSIVE DedupLoop(_, _, _)
\* the loop of _deduplicate_text: the kept sentences and the pool after it
DedupLoop(sentences, unique, pool) ==
  IF sentences = << >> THEN [unique |-> unique, pool |-> pool]
  ELSE IF OverlapsAny(Head(sentences), pool)
    THEN DedupLoop(Tail(sentences), unique, pool)
    ELSE DedupLoop(Tail(sentences), Append(unique, Head(sentences)), Append(pool, Head(sentences)))

\* _deduplicate_text: the returned text, and existing_sentences as the call leaves it
_deduplicate_text(existing_sentences, new_text) ==
  LET r == DedupLoop(_split_sentences(new_text), << >>, existing_sentences) IN
  [text |-> Join(r.unique, <<" ">>), existing |-> r.pool]

(***************************************************************************)
(* api.py: summaries, signals, page blocks                                 *)
(***************************************************************************)
\* x or y
Or(x, y) == IF x # << >> THEN x ELSE y

MinAdditionLen == 15

MaxAdditions == 3

RECURSIVE UniqueAdditions(_, _, _)
\* the loop over body sentences of _extract_best_summary
UniqueAdditions(body, best_sentences, additions) ==
  IF body = << >> THEN additions
  ELSE IF Len(Head(body)) < MinAdditionLen
    THEN UniqueAdditions(Tail(body), best_sentences, additions)
  ELSE LET grown == IF OverlapsAny(Head(body), best_sentences \o additions)
                      THEN additions ELSE Append(additions, Head(body))
       IN IF Len(grown) >= MaxAdditions THEN grown
          ELSE UniqueAdditions(Tail(body), best_sentences, grown)

_extract_best_summary(page) ==
  LET best == Strip(Or(page.meta_description,
                    Or(page.og_description, Or(page.schema_description, page.h1))))
      body_sentences == _split_sentences(page.text_preview)
      additions == UniqueAdditions(body_sentences, _split_sentences(best), << >>)
  IN IF best = << >> THEN Join(Take(body_sentences, 2), <<" ">>)
     ELSE IF additions # << >> THEN best \o <<" ">> \o Join(additions, <<" ">>)
     ELSE best

TaglineLimit == 120

ProductNameLimit == 80

\* the tagline of _extract_company_signals
Tagline(pages) ==
  IF \E i \in 1..Len(pages) : pages[i].category = "home"
    THEN LET p == pages[CHOOSE i \in 1..Len(pages) :
                      pages[i].category = "home" /\ \A j \in 1..(i - 1) : pages[j].category # "home"]
             t == Strip(Or(p.h1, Or(p.og_title, p.meta_description)))
         IN IF Len(t) > TaglineLimit
              THEN (IF _split_sentences(t) # << >> THEN _split_sentences(t)[1] ELSE Take(t, TaglineLimit))
              ELSE t
    ELSE << >>

RECURSIVE Products(_, _)
\* the product names of _extract_company_signals
Products(pages, products) ==
  IF pages = << >> THEN products
  ELSE LET name == Strip(Or(Head(pages).h1, Head(pages).title)) IN
       IF Head(pages).category = "product" /\ name # << >>
            /\ name \notin Range(products) /\ Len(name) < ProductNameLimit
         THEN Products(Tail(pages), Append(products, name))
         ELSE Products(Tail(pages), products)

HasCategory(pages, cat) == \E i \in 1..Len(pages) : pages[i].category = cat

_extract_company_signals(pages) ==
  [tagline |-> Tagline(pages),
   products |-> Products(pages, << >>),
   has_pricing |-> HasCategory(pages, "pricing"),
   has_blog |-> HasCategory(pages, "blog"),
   has_careers |-> HasCategory(pages, "careers")]

DigitSeq == <<"0","1","2","3","4","5","6","7","8","9">>

RECURSIVE IntStr(_)
\* str(n) for n >= 0
IntStr(n) == IF n < 10 THEN <<DigitSeq[n + 1]>> ELSE IntStr(n \div 10) \o <<DigitSeq[(n % 10) + 1]>>

YesNo(b) == IF b THEN <<"y","e","s">> ELSE <<"n","o">>

MaxHeaderProducts == 6

\* the header of _build_output after its "# {domain}" line
HeaderRest(pages) ==
  LET signals == _extract_company_signals(pages) IN
  (IF signals.tagline # << >> THEN <<"\n","T","a","g","l","i","n","e",":"," ">> \o signals.tagline ELSE << >>)
  \o (IF signals.products # << >>
        THEN <<"\n","P","r","o","d","u","c","t","s",":"," ">> \o Join(Take(signals.products, MaxHeaderProducts), <<","," ">>) ELSE << >>)
  \o <<"\n">> \o <<"P","a","g","e","s",":"," ">> \o IntStr(Len(pages))
  \o <<" ","|"," ","P","r","i","c","i","n","g",":"," ">> \o YesNo(signals.has_pricing)
  \o <<" ","|"," ","B","l","o","g",":"," ">> \o YesNo(signals.has_blog)
  \o <<" ","|"," ","C","a","r","e","e","r","s",":"," ">> \o YesNo(signals.has_careers)

\* len(text.encode("utf-8")) of "# " + domain + rest, the domain given by its length
DomainTextBytes(domainLen, rest) == 2 + domainLen + Utf8Len(rest)

\* str.upper() of a category name
CategoryTag(cat) ==
  CASE cat = "home" -> <<"H","O","M","E">> [] cat = "product" -> <<"P","R","O","D","U","C","T">> [] cat = "pricing" -> <<"P","R","I","C","I","N","G">>
    [] cat = "about" -> <<"A","B","O","U","T">> [] cat = "api" -> <<"A","P","I">> [] cat = "security" -> <<"S","E","C","U","R","I","T","Y">>
    [] cat = "faq" -> <<"F","A","Q">> [] cat = "case-study" -> <<"C","A","S","E","-","S","T","U","D","Y">> [] cat = "partners" -> <<"P","A","R","T","N","E","R","S">>
    [] cat = "investors" -> <<"I","N","V","E","S","T","O","R","S">> [] cat = "careers" -> <<"C","A","R","E","E","R","S">> [] cat = "blog" -> <<"B","L","O","G">>
    [] cat = "press" -> <<"P","R","E","S","S">> [] cat = "contact" -> <<"C","O","N","T","A","C","T">> [] cat = "legal" -> <<"L","E","G","A","L">>
    [] cat = "other" -> <<"O","T","H","E","R">>

MaxHeadingsScanned == 8

MaxHeadingLen == 60

MaxHeadingsShown == 4

RECURSIVE UniqueHeadings(_, _)
\* headings not already in the summary
UniqueHeadings(headings, summary_lower) ==
  IF headings = << >> THEN << >>
  ELSE IF ~Contains(summary_lower, LowerStr(Head(headings))) /\ Len(Head(headings)) < MaxHeadingLen
    THEN <<Head(headings)>> \o UniqueHeadings(Tail(headings), summary_lower)
    ELSE UniqueHeadings(Tail(headings), summary_lower)

\* f"{cat} {path}\n{summary}{heading_str}", before trimming
PageLine(page, summary) ==
  LET path == Or(UrlPath(page.url), <<"/">>)
      unique_headings == UniqueHeadings(Take(page.headings, MaxHeadingsScanned), LowerStr(summary))
      heading_str == IF unique_headings # << >>
                       THEN <<" ","[">> \o Join(Take(unique_headings, MaxHeadingsShown), <<" ","|"," ">>) \o <<"]">>
                       ELSE << >>
  IN CategoryTag(page.category) \o <<" ">> \o path \o <<"\n">> \o summary \o heading_str

TrimStep == 50

\* the loop test of the trimming of _build_page_line
NeedsTrim(line, budget) == Utf8Len(line) > budget /\ line # << >>

\* line[:len(line) - 50].rstrip() + "..."
TrimOnce(line) == RStrip(Prefix(line, Len(line) - TrimStep)) \o <<".",".",".">>

\* the largest power of two that is at most n, n >= 1
RECURSIVE Pow2Below(_)
Pow2Below(n) == IF n < 2 THEN 1 ELSE 2 * Pow2Below(n \div 2)

RECURSIVE IntTimes14(_)
\* int(b * 1.4) in IEEE double arithmetic: the double nearest 1.4 is below 1.4, so an
\* exact integer product 7b/5 may round to the double below it
IntTimes14(b) ==
  IF b < 0 THEN 0 - IntTimes14(0 - b)
  ELSE IF b > 0 /\ b % 5 = 0 /\ 4 * b > 5 * Pow2Below((7 * b) \div 5) THEN ((7 * b) \div 5) - 1
  ELSE (14 * b) \div 10

RECURSIVE IntTimes07(_)
\* int(b * 0.7) in IEEE double arithmetic
IntTimes07(b) ==
  IF b < 0 THEN 0 - IntTimes07(0 - b)
  ELSE IF b > 0 /\ b % 10 = 0 /\ 2 * b > 5 * Pow2Below((7 * b) \div 10) THEN ((7 * b) \div 10) - 1
  ELSE (7 * b) \div 10

SeparatorAllowance == 20

\* remaining // page_count
BaseBudget(headerBytes, page_count) ==
  (MAX_OUTPUT_BYTES - (headerBytes + SeparatorAllowance)) \div page_count

\* the byte allowance of the page at position i (from 0) of the sorted list
PageBudget(base_budget, i) ==
  IF i < 3 THEN IntTimes14(base_budget)
  ELSE IF i < 6 THEN base_budget
  ELSE IntTimes07(base_budget)

RECURSIVE InsertByPriority_Unstable(_, _, _)
\* an insertion before the entries of equal rank: the sort is no longer stable
InsertByPriority_Unstable(sorted, x, pages) ==
  IF sorted = << >> THEN <<x>>
  ELSE IF _priority(pages[Head(sorted)].category) < _priority(pages[x].category)
    THEN <<Head(sorted)>> \o InsertByPriority_Unstable(Tail(sorted), x, pages)
    ELSE <<x>> \o sorted

RECURSIVE InsertByPriority(_, _, _)
\* insert index x into the sorted index list after every entry of rank <= its rank
InsertByPriority(sorted, x, pages) ==
  IF sorted = << >> THEN <<x>>
  ELSE IF _priority(pages[Head(sorted)].category) <= _priority(pages[x].category)
    THEN <<Head(sorted)>> \o InsertByPriority(Tail(sorted), x, pages)
    ELSE <<x>> \o sorted

RECURSIVE SortFrom(_, _, _)
SortFrom(pages, i, sorted) ==
  IF i > Len(pages) THEN sorted ELSE SortFrom(pages, i + 1, InsertByPriority(sorted, i, pages))

\* sorted(pages, key=lambda p: _priority(p["category"])): a stable sort, as positions in pages
SortByPriority(pages) == SortFrom(pages, 1, << >>)

KeyContent == <<"\n","\n","#","#"," ","K","e","y"," ","C","o","n","t","e","n","t","\n">>

\* header + "\n\n## Key Content\n" + "\n\n".join(page_blocks), after the "# {domain}" line
AssembleContent(headerRest, page_blocks) == headerRest \o KeyContent \o Join(page_blocks, <<"\n","\n">>)

\* a loop test that never drops the last block
OverBudget_KeepsOneBlock(domainLen, text, page_blocks) ==
  DomainTextBytes(domainLen, text) > MAX_OUTPUT_BYTES /\ Len(page_blocks) > 1

\* the loop test of the progressive trimming of _build_output
OverBudget(domainLen, text, page_blocks) ==
  DomainTextBytes(domainLen, text) > MAX_OUTPUT_BYTES /\ page_blocks # << >>

\* page_blocks.pop()
PopBlock(page_blocks) == SubSeq(page_blocks, 1, Len(page_blocks) - 1)

RepeatableCategories == {"product", "other"}

RECURSIVE DedupCategories_NoSeenUpdate(_, _, _)
\* the dedup without seen_cats.add(cat)
DedupCategories_NoSeenUpdate(raw, seen_cats, unique_pages) ==
  IF raw = << >> THEN unique_pages
  ELSE LET p == Head(raw) IN
       IF p.category \in RepeatableCategories \/ p.category \notin seen_cats
         THEN DedupCategories_NoSeenUpdate(Tail(raw), seen_cats, Append(unique_pages, p))
         ELSE DedupCategories_NoSeenUpdate(Tail(raw), seen_cats, unique_pages)

RECURSIVE DedupCategories(_, _, _)
\* the category-level dedup of the /scrape handler
DedupCategories(raw, seen_cats, unique_pages) ==
  IF raw = << >> THEN unique_pages
  ELSE LET p == Head(raw) IN
       IF p.category \in RepeatableCategories
         THEN DedupCategories(Tail(raw), seen_cats, Append(unique_pages, p))
       ELSE IF p.category \notin seen_cats
         THEN DedupCategories(Tail(raw), seen_cats \cup {p.category}, Append(unique_pages, p))
       ELSE DedupCategories(Tail(raw), seen_cats, unique_pages)

(***************************************************************************)
(* Sentence-level dedup as a state machine: _deduplicate_text run on a     *)
(* text, then on its own output with the pool the first run started from   *)
(***************************************************************************)
VARIABLES ddSeen, ddText, ddOut1, ddSeenAfter, ddOut2, ddPc

dedupVars == <<ddSeen, ddText, ddOut1, ddSeenAfter, ddOut2, ddPc>>

\* the words the texts are made of
DedupWords == <<<<"a">>, <<"b">>, <<"b",".">>, <<"c",".">>, <<"d">>, <<"A","!">>>>

MaxWords == 4

\* the texts: up to MaxWords words, one space apart
DedupTexts ==
  {Join([i \in DOMAIN f |-> DedupWords[f[i]]], <<" ">>) :
     f \in UNION {[1..n -> 1..Len(DedupWords)] : n \in 0..MaxWords}}

\* the pools of sentences seen before the call
SeenPools == { << >>, <<<<"a"," ","d"," ","x",".">>>>, <<<<"b",".">>>>, <<<<"c","."," ","d">>, <<"a">>>> }

DedupIdle ==
  /\ ddSeen = << >> /\ ddText = << >> /\ ddOut1 = << >>
  /\ ddSeenAfter = << >> /\ ddOut2 = << >> /\ ddPc = "idle"

DedupInit ==
  /\ ddSeen \in SeenPools
  /\ ddText \in DedupTexts
  /\ ddOut1 = << >>
  /\ ddSeenAfter = << >>
  /\ ddOut2 = << >>
  /\ ddPc = "start"

\* out = _deduplicate_text(pool, text), pool a copy of the seen sentences
DedupFirst ==
  /\ ddPc = "start"
  /\ ddOut1' = _deduplicate_text(ddSeen, ddText).text
  /\ ddSeenAfter' = _deduplicate_text(ddSeen, ddText).existing
  /\ ddPc' = "once"
  /\ UNCHANGED <<ddSeen, ddText, ddOut2>>

\* _deduplicate_text(pool, out), pool again a copy of the seen sentences
DedupSecond ==
  /\ ddPc = "once"
  /\ ddOut2' = _deduplicate_text(ddSeen, ddOut1).text
  /\ ddPc' = "twice"
  /\ UNCHANGED <<ddSeen, ddText, ddOut1, ddSeenAfter>>

(***************************************************************************)
(* The /scrape handler after scrape_site returned, and _build_output       *)
(***************************************************************************)
VARIABLES dgRaw, dgDomainLen, dgPages, dgHeader, dgSorted, dgBase, dgIdx, dgBudget, dgLine,
          dgExisting, dgBlocks, dgAllBlocks, dgSummaries, dgContent, dgPc

digestVars == <<dgRaw, dgDomainLen, dgPages, dgHeader, dgSorted, dgBase, dgIdx, dgBudget, dgLine,
                dgExisting, dgBlocks, dgAllBlocks, dgSummaries, dgContent, dgPc>>

EmptyPage ==
  [url |-> SiteBase, title |-> << >>, h1 |-> << >>, meta_description |-> << >>, headings |-> << >>,
   text_preview |-> << >>, og_description |-> << >>, schema_description |-> << >>, og_title |-> << >>,
   category |-> ""]

\* the pages a crawl of the site can return, before they are categorized
PageCatalogue == <<
  [EmptyPage EXCEPT !.url = SiteBase, !.title = <<"A","c","m","e">>, !.h1 = <<"S","h","i","p"," ","f","a","s","t","e","r">>,
     !.meta_description = <<"A","c","m","e"," ","h","e","l","p","s"," ","t","e","a","m","s"," ","s","h","i","p"," ","s","o","f","t","w","a","r","e"," ","f","a","s","t","e","r",".">>,
     !.headings = <<<<"W","h","y"," ","A","c","m","e">>, <<"S","h","i","p"," ","f","a","s","t","e","r">>>>,
     !.text_preview = <<"A","c","m","e"," ","h","e","l","p","s"," ","t","e","a","m","s"," ","s","h","i","p"," ","s","o","f","t","w","a","r","e"," ","f","a","s","t","e","r","."," ","T","r","u","s","t","e","d"," ","b","y"," ","m","a","n","y"," ","t","e","a","m","s"," ","a","r","o","u","n","d"," ","t","h","e"," ","w","o","r","l","d","."," ","S","t","a","r","t"," ","i","n"," ","a"," ","m","i","n","u","t","e",".">>],
  [EmptyPage EXCEPT !.url = SiteBase \o <<"/","p","r","i","c","i","n","g">>, !.title = <<"P","r","i","c","i","n","g">>,
     !.headings = <<<<"F","r","e","e">>, <<"T","e","a","m">>>>,
     !.text_preview = <<"S","i","m","p","l","e"," ","p","l","a","n","s"," ","f","o","r"," ","e","v","e","r","y"," ","t","e","a","m","."," ","T","r","u","s","t","e","d"," ","b","y"," ","m","a","n","y"," ","t","e","a","m","s"," ","a","r","o","u","n","d"," ","t","h","e"," ","w","o","r","l","d",".">>],
  [EmptyPage EXCEPT !.url = SiteBase \o <<"/","p","l","a","n","s">>, !.title = <<"P","l","a","n","s">>,
     !.meta_description = <<"P","l","a","n","s"," ","a","n","d"," ","p","r","i","c","e","s"," ","f","o","r"," ","t","e","a","m","s",".">>,
     !.text_preview = <<"P","a","y"," ","p","e","r"," ","s","e","a","t"," ","e","v","e","r","y"," ","m","o","n","t","h",".">>],
  [EmptyPage EXCEPT !.url = SiteBase \o <<"/","p","r","o","d","u","c","t">>, !.h1 = <<"A","c","m","e"," ","D","e","p","l","o","y">>,
     !.og_description = <<"D","e","p","l","o","y"," ","w","i","t","h"," ","o","n","e"," ","c","l","i","c","k",".">>,
     !.headings = <<<<"D","e","p","l","o","y">>, <<"R","o","l","l"," ","b","a","c","k">>>>,
     !.text_preview = <<"D","e","p","l","o","y"," ","w","i","t","h"," ","o","n","e"," ","c","l","i","c","k","."," ","R","o","l","l"," ","b","a","c","k"," ","i","n"," ","s","e","c","o","n","d","s"," ","w","h","e","n"," ","a"," ","r","e","l","e","a","s","e"," ","g","o","e","s"," ","w","r","o","n","g",".">>],
  [EmptyPage EXCEPT !.url = SiteBase \o <<"/","f","e","a","t","u","r","e","s">>, !.h1 = <<"A","c","m","e"," ","B","u","i","l","d">>,
     !.schema_description = <<"B","u","i","l","d"," ","e","v","e","r","y"," ","c","o","m","m","i","t",".">>,
     !.text_preview = <<"B","u","i","l","d"," ","e","v","e","r","y"," ","c","o","m","m","i","t"," ","i","n"," ","t","h","e"," ","c","l","o","u","d","."," ","T","r","u","s","t","e","d"," ","b","y"," ","m","a","n","y"," ","t","e","a","m","s"," ","a","r","o","u","n","d"," ","t","h","e"," ","w","o","r","l","d",".">>],
  [EmptyPage EXCEPT !.url = SiteBase \o <<"/","m","i","s","c">>, !.title = <<"M","i","s","c">>,
     !.text_preview = <<"T","r","u","s","t","e","d"," ","b","y"," ","m","a","n","y"," ","t","e","a","m","s"," ","a","r","o","u","n","d"," ","t","h","e"," ","w","o","r","l","d","."," ","N","o","t","h","i","n","g"," ","e","l","s","e"," ","t","o"," ","s","e","e"," ","h","e","r","e",".">>] >>

MaxRawPages == 3

\* the page lists: up to MaxRawPages different pages of the catalogue, in any order
RawPageLists ==
  {[i \in DOMAIN f |-> PageCatalogue[f[i]]] :
     f \in {g \in UNION {[1..n -> 1..Len(PageCatalogue)] : n \in 0..MaxRawPages} :
              \A a, b \in DOMAIN g : a # b => g[a] # g[b]}}

\* the lengths of the domain printed in the header
DomainLens == {4, 7480, 7640, 7700, 7727, 7800}

DigestIdle ==
  /\ dgRaw = << >> /\ dgDomainLen = 0 /\ dgPages = << >> /\ dgHeader = << >> /\ dgSorted = << >>
  /\ dgBase = 0 /\ dgIdx = 0 /\ dgBudget = 0 /\ dgLine = << >> /\ dgExisting = << >>
  /\ dgBlocks = << >> /\ dgAllBlocks = << >> /\ dgSummaries = << >> /\ dgContent = << >>
  /\ dgPc = "idle"

DigestInit ==
  /\ dgRaw \in RawPageLists
  /\ dgDomainLen \in DomainLens
  /\ dgPages = << >> /\ dgHeader = << >> /\ dgSorted = << >>
  /\ dgBase = 0 /\ dgIdx = 0 /\ dgBudget = 0 /\ dgLine = << >> /\ dgExisting = << >>
  /\ dgBlocks = << >> /\ dgAllBlocks = << >> /\ dgSummaries = << >> /\ dgContent = << >>
  /\ dgPc = "categorize"

\* for page in raw["pages"]: page["category"] = categorize_page(page["url"], page)
DgCategorize ==
  /\ dgPc = "categorize"
  /\ dgPages' = [i \in 1..Len(dgRaw) |->
                   [dgRaw[i] EXCEPT !.category = categorize_page(dgRaw[i].url, dgRaw[i])]]
  /\ dgPc' = "dedup"
  /\ UNCHANGED <<dgRaw, dgDomainLen, dgHeader, dgSorted, dgBase, dgIdx, dgBudget, dgLine,
                 dgExisting, dgBlocks, dgAllBlocks, dgSummaries, dgContent>>

\* the category-level dedup: unique_pages
DgDedup ==
  /\ dgPc = "dedup"
  /\ dgPages' = DedupCategories(dgPages, {}, << >>)
  /\ dgPc' = "build"
  /\ UNCHANGED <<dgRaw, dgDomainLen, dgHeader, dgSorted, dgBase, dgIdx, dgBudget, dgLine,
                 dgExisting, dgBlocks, dgAllBlocks, dgSummaries, dgContent>>

\* _build_output with no page: return header
DgReturnHeader ==
  /\ dgPc = "build"
  /\ Len(dgPages) = 0
  /\ dgHeader' = HeaderRest(dgPages)
  /\ dgSorted' = SortByPriority(dgPages)
  /\ dgContent' = HeaderRest(dgPages)
  /\ dgPc' = "done"
  /\ UNCHANGED <<dgRaw, dgDomainLen, dgPages, dgBase, dgIdx, dgBudget, dgLine,
                 dgExisting, dgBlocks, dgAllBlocks, dgSummaries>>

\* _build_output up to its loop: header, sorted pages, base budget
DgStart ==
  /\ dgPc = "build"
  /\ Len(dgPages) > 0
  /\ dgHeader' = HeaderRest(dgPages)
  /\ dgSorted' = SortByPriority(dgPages)
  /\ dgBase' = BaseBudget(DomainTextBytes(dgDomainLen, HeaderRest(dgPages)), Len(dgPages))
  /\ dgIdx' = 0
  /\ dgExisting' = << >>
  /\ dgBlocks' = << >>
  /\ dgPc' = "page"
  /\ UNCHANGED <<dgRaw, dgDomainLen, dgPages, dgBudget, dgLine, dgAllBlocks, dgSummaries, dgContent>>

\* _build_page_line up to its trimming: the summary, deduplicated against the pool, and the line
DgBuildLine ==
  /\ dgPc = "page"
  /\ LET page == dgPages[dgSorted[dgIdx + 1]]
         r == _deduplicate_text(dgExisting, _extract_best_summary(page))
     IN /\ dgBudget' = PageBudget(dgBase, dgIdx)
        /\ dgExisting' = r.existing
        /\ dgSummaries' = Append(dgSummaries, r.text)
        /\ dgLine' = PageLine(page, r.text)
  /\ dgPc' = "trim"
  /\ UNCHANGED <<dgRaw, dgDomainLen, dgPages, dgHeader, dgSorted, dgBase, dgIdx,
                 dgBlocks, dgAllBlocks, dgContent>>

\* one turn of the trimming loop of _build_page_line
DgTrim ==
  /\ dgPc = "trim"
  /\ NeedsTrim(dgLine, dgBudget)
  /\ dgLine' = TrimOnce(dgLine)
  /\ UNCHANGED <<dgRaw, dgDomainLen, dgPages, dgHeader, dgSorted, dgBase, dgIdx, dgBudget,
                 dgExisting, dgBlocks, dgAllBlocks, dgSummaries, dgContent, dgPc>>

\* _build_page_line returns; page_blocks.append(block)
DgAppend ==
  /\ dgPc = "trim"
  /\ ~NeedsTrim(dgLine, dgBudget)
  /\ dgBlocks' = Append(dgBlocks, dgLine)
  /\ dgAllBlocks' = Append(dgAllBlocks, dgLine)
  /\ dgIdx' = dgIdx + 1
  /\ dgPc' = IF dgIdx + 1 < Len(dgSorted) THEN "page" ELSE "assemble"
  /\ UNCHANGED <<dgRaw, dgDomainLen, dgPages, dgHeader, dgSorted, dgBase, dgBudget, dgLine,
                 dgExisting, dgSummaries, dgContent>>

\* content = header + "\n\n## Key Content\n" + "\n\n".join(page_blocks)
DgAssemble ==
  /\ dgPc = "assemble"
  /\ dgContent' = AssembleContent(dgHeader, dgBlocks)
  /\ dgPc' = "drop"
  /\ UNCHANGED <<dgRaw, dgDomainLen, dgPages, dgHeader, dgSorted, dgBase, dgIdx, dgBudget, dgLine,
                 dgExisting, dgBlocks, dgAllBlocks, dgSummaries>>

\* one turn of the progressive trimming: drop the last block and assemble again
DgDrop ==
  /\ dgPc = "drop"
  /\ OverBudget(dgDomainLen, dgContent, dgBlocks)
  /\ dgBlocks' = PopBlock(dgBlocks)
  /\ dgContent' = AssembleContent(dgHeader, PopBlock(dgBlocks))
  /\ UNCHANGED <<dgRaw, dgDomainLen, dgPages, dgHeader, dgSorted, dgBase, dgIdx, dgBudget, dgLine,
                 dgExisting, dgAllBlocks, dgSummaries, dgPc>>

\* return content
DgReturn ==
  /\ dgPc = "drop"
  /\ ~OverBudget(dgDomainLen, dgContent, dgBlocks)
  /\ dgPc' = "done"
  /\ UNCHANGED <<dgRaw, dgDomainLen, dgPages, dgHeader, dgSorted, dgBase, dgIdx, dgBudget, dgLine,
                 dgExisting, dgBlocks, dgAllBlocks, dgSummaries, dgContent>>

(***************************************************************************)
(* The crawl: scrape_site and its two engines (scraper.py,                 *)
(* scrapy_fallback.py).  A page is represented by its "url" field.  The    *)
(* hrefs of a homepage are given resolved (after urljoin).                 *)
(***************************************************************************)
MAX_PAGES == 15

CONCURRENT_REQUESTS == 4

\* href.split("#")[0].rstrip("/")
NormalizeUrl(u) == RStripIn(Slice(u, 1, FirstOf(u, {"#"}) - 1), {"/"})

\* url.startswith(("http://", "https://"))
HasHttpScheme(u) == StartsWith(u, <<"h","t","t","p",":","/","/">>) \/ StartsWith(u, <<"h","t","t","p","s",":","/","/">>)

_same_domain(base_url, link) == UrlNetloc(link) = UrlNetloc(base_url)

RECURSIVE NavLinksLoop(_, _, _)
\* the loop of _extract_nav_links over the hrefs of the anchors; seen is the set of the links
NavLinksLoop(hrefs, base_url, links) ==
  IF hrefs = << >> THEN links
  ELSE LET href == NormalizeUrl(Head(hrefs)) IN
       IF href = << >> \/ href \in Range(links) THEN NavLinksLoop(Tail(hrefs), base_url, links)
       ELSE IF ~HasHttpScheme(href) THEN NavLinksLoop(Tail(hrefs), base_url, links)
       ELSE IF ~_same_domain(base_url, href) THEN NavLinksLoop(Tail(hrefs), base_url, links)
       ELSE NavLinksLoop(Tail(hrefs), base_url, Append(links, href))

\* the hrefs of the anchors _extract_nav_links goes through: those inside the elements
\* selected by "nav, header, [role='navigation']", the whole document when none is selected
ContainerHrefs(doc) == IF doc.regions THEN doc.navHrefs ELSE doc.hrefs

_extract_nav_links(doc, base_url) == NavLinksLoop(ContainerHrefs(doc), base_url, << >>)

\* "text/html" in content_type or "application/xhtml" in content_type
IsHtmlType(content_type) ==
  Contains(content_type, <<"t","e","x","t","/","h","t","m","l">>) \/ Contains(content_type, <<"a","p","p","l","i","c","a","t","i","o","n","/","x","h","t","m","l">>)

\* the response handed to a spider callback has a text: it is a TextResponse, which the
\* downloader builds for every textual content type, and not a plain Response
HasText(content_type) ==
  StartsWith(content_type, <<"t","e","x","t","/">>) \/ Contains(content_type, <<"j","s","o","n">>)
    \/ Contains(content_type, <<"x","m","l">>)

\* f"{parsed.scheme}://{parsed.netloc}"
BaseUrl(url) == UrlScheme(url) \o <<":","/","/">> \o UrlNetloc(url)

\* nav_links after "if homepage not in nav_links: nav_links.insert(0, homepage)"
WithHomepage(nav_links, base_url) ==
  LET homepage == RStripIn(base_url, {"/"}) IN
  IF homepage \in Range(nav_links) THEN nav_links ELSE <<homepage>> \o nav_links

\* "if len(pages) >= MAX_PAGES: break" of the primary loop
RequestsCapReached(pages) == Len(pages) >= MAX_PAGES

\* the pages kept although the page of the link could not be scraped
AppendIfScraped_ResetOnFailure(pages, link, scraped) ==
  IF scraped THEN Append(pages, link) ELSE << >>

\* page = _scrape_page(session, link); if page: pages.append(page)
AppendIfScraped(pages, link, scraped) ==
  IF scraped THEN Append(pages, link) ELSE pages

\* the url scrape_site crawls
EnsureScheme(url) ==
  LET u == Strip(url) IN IF HasHttpScheme(u) THEN u ELSE <<"h","t","t","p","s",":","/","/">> \o u

\* a result that is never returned
HasPages_Never(result) == FALSE

\* a result that is returned whatever it holds
HasPages_Always(result) == TRUE

\* "if result["pages"]" of scrape_site
HasPages(result) == result.pages # << >>

\* the links of the domain among hrefs, as parse_homepage adds them to nav_links
DomainLinks(hrefs, domain) ==
  {NormalizeUrl(h) : h \in {x \in Range(hrefs) : UrlNetloc(NormalizeUrl(x)) = domain}}

\* the set nav_links of parse_homepage: from the anchors of the nav selectors, and from
\* every anchor of the page when these give no link
SpiderNavLinks(doc, domain) ==
  IF DomainLinks(doc.navHrefs, domain) # {} THEN DomainLinks(doc.navHrefs, domain)
  ELSE DomainLinks(doc.hrefs, domain)

\* a cap test that lets one page too many in
SpiderCapReached_OffByOne(pages) == Len(pages) > MAX_PAGES

\* "len(self.pages) >= MAX_PAGES" of the spider
SpiderCapReached(pages) == Len(pages) >= MAX_PAGES

\* the generator parse_homepage with nothing left to run
NoGenerator == [live |-> FALSE, rest |-> {}]

\* the loop "for link in nav_links" of the generator parse_homepage run up to its next
\* yield or to its end; rest holds the links of the set nav_links not iterated yet, and
\* the set is iterated in an order of the interpreter's choosing, string hashing being
\* randomised in each process: any link of rest not scraped yet can be the one the loop
\* comes to, after any of the scraped ones (skipped).  Every outcome: the request yielded
\* if any, the generator and scraped_urls after it
GeneratorNext(rest, scraped_urls, pages) ==
  LET fresh == {link \in rest : RStripIn(link, {"/"}) \notin scraped_urls}
      ended == [requests |-> << >>, generator |-> NoGenerator, scraped_urls |-> scraped_urls]
  IN IF fresh = {} THEN {ended}
     ELSE IF SpiderCapReached(pages) THEN {ended}
     ELSE {[requests |-> <<[url |-> link, callback |-> "parse_page", dont_filter |-> FALSE]>>,
            generator |-> [live |-> TRUE, rest |-> (rest \ skipped) \ {link}],
            scraped_urls |-> scraped_urls \cup {RStripIn(link, {"/"})}] :
             link \in fresh, skipped \in SUBSET (rest \ fresh)}

\* the request fingerprint of the scheduler's duplicate filter: the URL without its
\* fragment, an empty path read as "/"
Fingerprint(url) ==
  LET u == Slice(url, 1, FirstOf(url, {"#"}) - 1) IN
  IF UrlPath(u) = << >> THEN u \o <<"/">> ELSE u

RECURSIVE Schedule(_, _, _)
\* the scheduler enqueuing requests: one whose fingerprint was seen is dropped unless
\* it is marked dont_filter, and dont_filter requests are not recorded
Schedule(requests, queue, seen) ==
  IF requests = << >> THEN [queue |-> queue, seen |-> seen]
  ELSE LET r == Head(requests) IN
       IF r.dont_filter THEN Schedule(Tail(requests), Append(queue, r), seen)
       ELSE IF Fingerprint(r.url) \in seen THEN Schedule(Tail(requests), queue, seen)
       ELSE Schedule(Tail(requests), Append(queue, r), seen \cup {Fingerprint(r.url)})

\* the page of the handler's loop "page["category"] = categorize_page(page["url"], page)"
CategorizedPage(url) == [url |-> url, category |-> categorize_page(url, NoContent)]

\* full_url of the /scrape handler
HandlerFullUrl(target) ==
  LET url == Strip(target) IN IF StartsWith(url, <<"h","t","t","p">>) THEN url ELSE <<"h","t","t","p","s",":","/","/">> \o url

\* str(exc) of the RuntimeError scrape_site raises when both strategies gave no page
ScrapeError(url) ==
  <<"C","a","n","n","o","t"," ","s","c","r","a","p","e"," ">> \o url \o <<":"," ","a","l","l"," ","s","t","r","a","t","e","g","i","e","s"," ","f","a","i","l","e","d"," ","(","r","e","q","u","e","s","t","s"," ","+"," ","S","c","r","a","p","y",")">>

\* scrape_site raised
Raised(url) == [status |-> "raised", pages |-> << >>, error |-> ScrapeError(url)]

\* the response of the handler when scrape_site raised
ErrorResponse(domain, error) ==
  [domain |-> domain, error |-> error,
   content |-> <<"#"," ">> \o domain \o <<"\n","\n","E","r","r","o","r",":"," ","c","o","u","l","d"," ","n","o","t"," ","s","c","r","a","p","e"," ","t","h","i","s"," ","w","e","b","s","i","t","e",".">>]

\* the response of the handler for the pages of a crawl, its "content" left to _build_output
DigestResponse(domain, urls) ==
  LET raw == [i \in 1..Len(urls) |-> CategorizedPage(urls[i])]
      unique_pages == DedupCategories(raw, {}, << >>)
      categories == {unique_pages[i].category : i \in 1..Len(unique_pages)}
  IN [domain |-> domain, categories |-> categories,
      has_pricing |-> "pricing" \in categories, has_blog |-> "blog" \in categories,
      page_count |-> Len(unique_pages)]
(***************************************************************************)
(* One /scrape request: scrape_site with the primary engine, then the      *)
(* spider, then the handler's response.                                    *)
(***************************************************************************)
VARIABLES crTarget, crSite, ssPc, ssUrl, ssResult,
          rqNavLinks, rqIdx, rqPages, rqScraped,
          spPages, spScraped, spSeen, spQueue, spActive, spGen,
          hdResponse

crawlVars == <<crTarget, crSite, ssPc, ssUrl, ssResult, rqNavLinks, rqIdx, rqPages, rqScraped,
               spPages, spScraped, spSeen, spQueue, spActive, spGen, hdResponse>>

rqVars == <<rqNavLinks, rqIdx, rqPages, rqScraped>>

spVars == <<spPages, spScraped, spSeen, spQueue, spActive, spGen>>

\* hrefs a homepage can carry: a page, the same with a trailing slash, one with a
\* fragment, the homepage itself, and a link to another domain
HrefPool == { SiteBase \o <<"/","a">>, SiteBase \o <<"/","a","/">>, SiteBase \o <<"/","b","#","x">>, SiteBase \o <<"/">>,
              <<"h","t","t","p","s",":","/","/","b",".","c","o","/","a">> }

MaxLinks == 2

HrefLists == UNION {[1..n -> HrefPool] : n \in 0..MaxLinks}

\* the redirections a site answers with, as pairs <<requested url, final url>>
RedirectTables == {
  {},
  { <<SiteBase \o <<"/","a">>, SiteBase \o <<"/","b","/">>>> },
  { <<SiteBase \o <<"/","a">>, SiteBase \o <<"/">>>> },
  { <<SiteBase \o <<"/","a">>, SiteBase \o <<"/","c">>>>, <<SiteBase \o <<"/","b">>, SiteBase \o <<"/","c">>>> } }

Html == <<"t","e","x","t","/","h","t","m","l",";"," ","c","h","a","r","s","e","t","=","u","t","f","-","8">>

\* a site: the anchors of its homepage (hrefs) and those of them inside nav-like elements
\* (navHrefs; regions tells whether the page has such elements), its redirections, the
\* content type of its responses, whether its responses can fail, and whether it refuses
\* the primary engine
PlainSite ==
  [hrefs |-> << >>, navHrefs |-> << >>, regions |-> FALSE, redirects |-> {}, ctype |-> Html,
   flaky |-> FALSE, blocked |-> FALSE]

\* sites with few links and no nav-like element, any of whose responses can fail
SmallSites ==
  {[PlainSite EXCEPT !.hrefs = h, !.redirects = r, !.flaky = TRUE] :
     h \in HrefLists, r \in RedirectTables}

\* sites whose homepage has nav-like elements holding its first anchors
NavSites ==
  UNION {{[PlainSite EXCEPT !.hrefs = h, !.navHrefs = SubSeq(h, 1, n), !.regions = TRUE,
                            !.flaky = TRUE] : n \in 0..Len(h)} : h \in HrefLists}

\* sites that answer every request with a body that is not HTML
NonHtmlSites ==
  {[PlainSite EXCEPT !.ctype = c, !.flaky = f] :
     c \in {<<"a","p","p","l","i","c","a","t","i","o","n","/","j","s","o","n">>, <<"t","e","x","t","/","p","l","a","i","n">>, <<"i","m","a","g","e","/","p","n","g">>}, f \in BOOLEAN}

\* the i-th link of the large site
LargeLink(i) == SiteBase \o <<"/","p">> \o IntStr(i)

\* the number of links of the large site: with MAX_PAGES pages retained, the homepage
\* among them, CONCURRENT_REQUESTS links are left
LargeLinkCount == MAX_PAGES - 1 + CONCURRENT_REQUESTS

\* a site with more links than MAX_PAGES, every page of which is served
LargeSite == [PlainSite EXCEPT !.hrefs = [i \in 1..LargeLinkCount |-> LargeLink(i)]]

Sites == SmallSites \cup NavSites \cup NonHtmlSites \cup {LargeSite}

\* the target strings of the requests: without a scheme, with one, and without a scheme
\* but beginning with the letters "http"
Targets == {<<"a",".","c","o">>, <<"h","t","t","p","s",":","/","/","a",".","c","o","/">>, <<"h","t","t","p","b","i","n",".","o","r","g">>}

\* whether _fetch_page can return a response / None for the site
FetchOutcomes(site) ==
  IF site.blocked \/ ~IsHtmlType(site.ctype) THEN {FALSE}
  ELSE IF site.flaky THEN {TRUE, FALSE} ELSE {TRUE}

\* the statuses a downloaded response can carry when it reaches a spider callback
CallbackStatuses(site) == IF site.flaky THEN {200, 204} ELSE {200}

HasRedirect(site, url) == \E p \in site.redirects : p[1] = url

RedirectTarget(site, url) == (CHOOSE p \in site.redirects : p[1] = url)[2]

Pending == [status |-> "pending", pages |-> << >>]

CrawlIdle ==
  /\ crTarget = << >> /\ crSite = PlainSite
  /\ ssPc = "idle" /\ ssUrl = << >> /\ ssResult = Pending
  /\ rqNavLinks = << >> /\ rqIdx = 0 /\ rqPages = << >> /\ rqScraped = {}
  /\ spPages = << >> /\ spScraped = {} /\ spSeen = {} /\ spQueue = << >> /\ spActive = {}
  /\ spGen = NoGenerator
  /\ hdResponse = [pending |-> TRUE]

CrawlInit ==
  /\ crTarget \in Targets /\ crSite \in Sites
  /\ ssPc = "start" /\ ssUrl = << >> /\ ssResult = Pending
  /\ rqNavLinks = << >> /\ rqIdx = 0 /\ rqPages = << >> /\ rqScraped = {}
  /\ spPages = << >> /\ spScraped = {} /\ spSeen = {} /\ spQueue = << >> /\ spActive = {}
  /\ spGen = NoGenerator
  /\ hdResponse = [pending |-> TRUE]

\* the links of the large site still open where its crawl by the spider is taken up
MaxOpenLinks == 5

\* the hash seeds of the spider's process under which the crawl is taken up: 0 to MaxHashSeed
MaxHashSeed == 4

\* the order in which the set nav_links of the large site, its links added in the order of
\* the page, is iterated by an interpreter started with the hash seed 0, 1, 2, ..., as
\* link numbers
HashSeedOrders == <<
  <<5, 16, 7, 11, 13, 18, 9, 3, 8, 17, 2, 6, 1, 10, 14, 4, 12, 15>>,
  <<9, 14, 5, 15, 11, 4, 16, 12, 7, 18, 10, 2, 17, 1, 13, 6, 8, 3>>,
  <<7, 15, 8, 18, 13, 17, 4, 10, 9, 11, 3, 2, 16, 14, 5, 6, 12, 1>>,
  <<6, 4, 18, 1, 9, 5, 10, 11, 15, 17, 13, 16, 7, 3, 14, 12, 2, 8>>,
  <<8, 16, 18, 10, 15, 6, 17, 11, 4, 3, 7, 5, 13, 14, 2, 9, 1, 12>>,
  <<6, 17, 10, 15, 11, 16, 18, 3, 5, 1, 7, 12, 14, 2, 9, 8, 4, 13>>,
  <<12, 3, 6, 5, 10, 9, 16, 13, 17, 15, 14, 11, 1, 8, 7, 2, 18, 4>>,
  <<10, 3, 11, 13, 18, 8, 9, 12, 16, 4, 2, 6, 14, 17, 5, 7, 1, 15>>,
  <<5, 11, 2, 10, 6, 13, 14, 15, 18, 4, 7, 8, 3, 12, 17, 1, 16, 9>> >>

\* the links of the large site in the iteration order of a hash seed
SeedOrder(seed) == [i \in 1..LargeLinkCount |-> LargeLink(HashSeedOrders[seed + 1][i])]

\* the spider holding the homepage and the pages of the links retained, with requests for
\* the links queued and active, the loop of parse_homepage not having reached the links
\* waiting
SpiderHolds(retained, queued, active, waiting, live) ==
  LET request(link) == [url |-> link, callback |-> "parse_page", dont_filter |-> FALSE]
      yielded == Range(retained) \cup Range(queued) \cup active
  IN /\ spPages = <<SiteBase>> \o retained
     /\ spQueue = [i \in 1..Len(queued) |-> request(queued[i])]
     /\ spActive = {request(link) : link \in active}
     /\ spGen = [live |-> live, rest |-> waiting]
     /\ spScraped = {SiteBase} \cup yielded
     /\ spSeen = {Fingerprint(link) : link \in yielded}

\* the states the spider is in, the set being iterated in order, when the loop of
\* parse_homepage has yielded the first links, left in the queue (early), then as many
\* links as are retained, each downloaded and parsed before the loop is resumed, then
\* some more (late), each downloaded or left in the queue, the last links waiting
MidCrawlLoopFirst(order) ==
  LET n == LargeLinkCount - MaxOpenLinks IN
  \E e \in 0..MaxOpenLinks : \E l \in 0..(MaxOpenLinks - e) :
    \E active \in SUBSET {order[i] : i \in (e + n + 1)..(e + n + l)} : \E live \in BOOLEAN :
      LET late == SubSeq(order, e + n + 1, e + n + l)
          waiting == {order[i] : i \in (e + n + l + 1)..LargeLinkCount}
      IN /\ Cardinality(active) <= CONCURRENT_REQUESTS
         /\ waiting # {} => live
         /\ SpiderHolds(SubSeq(order, e + 1, e + n),
                        SubSeq(order, 1, e) \o SelectSeq(late, LAMBDA link : link \notin active),
                        active, waiting, live)

\* the states the spider is in, the set being iterated in order, when the loop of
\* parse_homepage has yielded every link before the first download: the downloader takes
\* the links from the last yielded on, as many links as are retained each being parsed
\* before the next download, and some more being downloaded
MidCrawlDownloadsLast(order) ==
  LET n == LargeLinkCount - MaxOpenLinks IN
  \E a \in 0..CONCURRENT_REQUESTS : \E live \in BOOLEAN :
    SpiderHolds([i \in 1..n |-> order[LargeLinkCount + 1 - i]], SubSeq(order, 1, MaxOpenLinks - a),
                {order[i] : i \in (MaxOpenLinks - a + 1)..MaxOpenLinks}, {}, live)

\* The crawl of the large site by the spider is not followed from its start, the orders
\* in which its pages can be retained being too many to go through.  It is taken up in
\* states the spider's process comes to under a hash seed, the homepage and all the links
\* but MaxOpenLinks retained
SpiderMidCrawl ==
  /\ crTarget = <<"a",".","c","o">> /\ crSite = [LargeSite EXCEPT !.blocked = TRUE]
  /\ ssPc = "spider" /\ ssUrl = SiteBase /\ ssResult = Pending
  /\ rqNavLinks = << >> /\ rqIdx = 0 /\ rqPages = << >> /\ rqScraped = {}
  /\ hdResponse = [pending |-> TRUE]
  /\ \E seed \in 0..MaxHashSeed :
       MidCrawlLoopFirst(SeedOrder(seed)) \/ MidCrawlDownloadsLast(SeedOrder(seed))

\* scrape_site: the url is stripped and given a scheme
SsStart ==
  /\ ssPc = "start"
  /\ ssUrl' = EnsureScheme(crTarget)
  /\ ssPc' = "requests"
  /\ UNCHANGED <<crTarget, crSite, ssResult, rqVars, spVars, hdResponse>>

\* _scrape_site_requests up to its loop: the homepage is fetched, with one retry under
\* the alternate headers; without a response it raises, which scrape_site swallows
RqHomepage ==
  /\ ssPc = "requests"
  /\ \E r1, r2 \in FetchOutcomes(crSite) :
       IF r1 \/ r2
         THEN /\ rqNavLinks' = WithHomepage(_extract_nav_links(crSite, BaseUrl(ssUrl)), BaseUrl(ssUrl))
              /\ rqIdx' = 1
              /\ ssPc' = "requests_loop"
         ELSE /\ ssPc' = "scrapy"
              /\ UNCHANGED <<rqNavLinks, rqIdx>>
  /\ rqPages' = << >> /\ rqScraped' = {}
  /\ UNCHANGED <<crTarget, crSite, ssUrl, ssResult, spVars, hdResponse>>

\* one iteration of "for link in nav_links" of _scrape_site_requests
RqVisit ==
  /\ ssPc = "requests_loop"
  /\ rqIdx <= Len(rqNavLinks)
  /\ LET link == rqNavLinks[rqIdx]
         normalized == RStripIn(link, {"/"})
     IN IF normalized \in rqScraped
          THEN /\ UNCHANGED <<rqPages, rqScraped>>
               /\ ssPc' = IF rqIdx = Len(rqNavLinks) THEN "requests_end" ELSE "requests_loop"
          ELSE /\ rqScraped' = rqScraped \cup {normalized}
               /\ \E r1, r2 \in FetchOutcomes(crSite) :
                    rqPages' = AppendIfScraped(rqPages, link, r1 \/ r2)
               /\ ssPc' = IF RequestsCapReached(rqPages') \/ rqIdx = Len(rqNavLinks)
                            THEN "requests_end" ELSE "requests_loop"
  /\ rqIdx' = rqIdx + 1
  /\ UNCHANGED <<crTarget, crSite, ssUrl, ssResult, rqNavLinks, spVars, hdResponse>>

\* _scrape_site_requests returns, and scrape_site returns its result if it has pages
RqReturn ==
  /\ ssPc = "requests_end"
  /\ LET result == [status |-> "returned", pages |-> rqPages] IN
     IF HasPages(result)
       THEN ssResult' = result /\ ssPc' = "handler"
       ELSE ssResult' = ssResult /\ ssPc' = "scrapy"
  /\ UNCHANGED <<crTarget, crSite, ssUrl, rqVars, spVars, hdResponse>>

\* _scrape_site_scrapy starts the spider: SiteSpider.__init__ and start_requests
SpStart ==
  /\ ssPc = "scrapy"
  /\ spPages' = << >> /\ spScraped' = {} /\ spSeen' = {} /\ spActive' = {} /\ spGen' = NoGenerator
  /\ spQueue' = <<[url |-> ssUrl, callback |-> "parse_homepage", dont_filter |-> TRUE]>>
  /\ ssPc' = "spider"
  /\ UNCHANGED <<crTarget, crSite, ssUrl, ssResult, rqVars, hdResponse>>

\* the downloader takes the request queued last, CONCURRENT_REQUESTS at a time
SpDownload ==
  /\ ssPc = "spider"
  /\ spQueue # << >>
  /\ Cardinality(spActive) < CONCURRENT_REQUESTS
  /\ spActive' = spActive \cup {spQueue[Len(spQueue)]}
  /\ spQueue' = SubSeq(spQueue, 1, Len(spQueue) - 1)
  /\ UNCHANGED <<crTarget, crSite, ssPc, ssUrl, ssResult, rqVars, spPages, spScraped, spSeen,
                 spGen, hdResponse>>

\* a download is answered by a redirection: the request is scheduled again for the new url
SpRedirect ==
  /\ ssPc = "spider"
  /\ \E r \in spActive :
       /\ HasRedirect(crSite, r.url)
       /\ LET s == Schedule(<<[r EXCEPT !.url = RedirectTarget(crSite, r.url)]>>, spQueue, spSeen)
          IN spQueue' = s.queue /\ spSeen' = s.seen
       /\ spActive' = spActive \ {r}
  /\ UNCHANGED <<crTarget, crSite, ssPc, ssUrl, ssResult, rqVars, spPages, spScraped, spGen,
                 hdResponse>>

\* handle_error: a failed download
SpHandleError ==
  /\ ssPc = "spider"
  /\ crSite.flaky
  /\ \E r \in spActive : spActive' = spActive \ {r}
  /\ UNCHANGED <<crTarget, crSite, ssPc, ssUrl, ssResult, rqVars, spPages, spScraped, spSeen,
                 spQueue, spGen, hdResponse>>

\* parse_homepage on the response of a request, response.url being the request's url, run
\* up to its first yield or to its end; on a response without a text, response.text
\* raises and the callback ends there
SpParseHomepage ==
  /\ ssPc = "spider"
  /\ \E r \in spActive : \E status \in CallbackStatuses(crSite) :
       /\ r.callback = "parse_homepage"
       /\ ~HasRedirect(crSite, r.url)
       /\ spActive' = spActive \ {r}
       /\ IF status # 200 \/ ~HasText(crSite.ctype)
            THEN UNCHANGED <<spPages, spScraped, spSeen, spQueue, spGen>>
            ELSE /\ spPages' = Append(spPages, r.url)
                 /\ \E g \in GeneratorNext(SpiderNavLinks(crSite, UrlNetloc(ssUrl)),
                                             spScraped \cup {RStripIn(r.url, {"/"})}, spPages') :
                      LET s == Schedule(g.requests, spQueue, spSeen)
                      IN /\ spScraped' = g.scraped_urls /\ spGen' = g.generator
                         /\ spQueue' = s.queue /\ spSeen' = s.seen
  /\ UNCHANGED <<crTarget, crSite, ssPc, ssUrl, ssResult, rqVars, hdResponse>>

\* the engine, having scheduled the request parse_homepage yielded, resumes the generator:
\* it runs to its next yield or to its end
SpResume ==
  /\ ssPc = "spider"
  /\ spGen.live
  /\ \E g \in GeneratorNext(spGen.rest, spScraped, spPages) :
       LET s == Schedule(g.requests, spQueue, spSeen)
       IN /\ spScraped' = g.scraped_urls /\ spGen' = g.generator
          /\ spQueue' = s.queue /\ spSeen' = s.seen
  /\ UNCHANGED <<crTarget, crSite, ssPc, ssUrl, ssResult, rqVars, spPages, spActive, hdResponse>>

\* parse_page on the response of a request
SpParsePage ==
  /\ ssPc = "spider"
  /\ \E r \in spActive : \E status \in CallbackStatuses(crSite) :
       /\ r.callback = "parse_page"
       /\ ~HasRedirect(crSite, r.url)
       /\ spActive' = spActive \ {r}
       /\ spPages' = IF SpiderCapReached(spPages) \/ status # 200 \/ ~HasText(crSite.ctype)
                       THEN spPages ELSE Append(spPages, r.url)
  /\ UNCHANGED <<crTarget, crSite, ssPc, ssUrl, ssResult, rqVars, spScraped, spSeen, spQueue,
                 spGen, hdResponse>>

\* closed: the spider has nothing left, its pages are written and read back by
\* _scrape_site_scrapy; scrape_site returns them if there are any and raises if not
SpClosed ==
  /\ ssPc = "spider"
  /\ spQueue = << >> /\ spActive = {} /\ ~spGen.live
  /\ LET result == [status |-> "returned", pages |-> spPages] IN
     ssResult' = IF HasPages(result) THEN result ELSE Raised(ssUrl)
  /\ ssPc' = "handler"
  /\ UNCHANGED <<crTarget, crSite, ssUrl, rqVars, spVars, hdResponse>>

\* the spider's process runs out of time or leaves no readable output:
\* _scrape_site_scrapy returns no page and scrape_site raises
SpTimeout ==
  /\ ssPc = "spider"
  /\ spPages' = << >> /\ spScraped' = {} /\ spSeen' = {} /\ spQueue' = << >> /\ spActive' = {}
  /\ spGen' = NoGenerator
  /\ ssResult' = Raised(ssUrl)
  /\ ssPc' = "handler"
  /\ UNCHANGED <<crTarget, crSite, ssUrl, rqVars, hdResponse>>

\* the /scrape handler answers
HdRespond ==
  /\ ssPc = "handler"
  /\ LET domain == UrlNetloc(HandlerFullUrl(crTarget)) IN
     hdResponse' = IF ssResult.status = "raised"
                     THEN ErrorResponse(domain, ssResult.error)
                     ELSE DigestResponse(domain, ssResult.pages)
  /\ ssPc' = "done"
  /\ UNCHANGED <<crTarget, crSite, ssUrl, ssResult, rqVars, spVars>>
(***************************************************************************)
(* Properties                                                              *)
(***************************************************************************)
vars == <<catVars, textVars, dedupVars, digestVars, crawlVars>>

DigestBytes == DomainTextBytes(dgDomainLen, dgContent)

HeaderBytes == DomainTextBytes(dgDomainLen, dgHeader)

\* C1: every digest _build_output returns is at most MAX_OUTPUT_BYTES bytes of UTF-8, or
\* it is the header alone (no "## Key Content" line, no block) and the header by itself
\* is over the budget.
C1_DigestWithinBudget ==
  dgPc = "done" =>
    \/ DigestBytes <= MAX_OUTPUT_BYTES
    \/ (dgContent = dgHeader /\ dgBlocks = << >> /\ HeaderBytes > MAX_OUTPUT_BYTES)

\* C1 witness: a digest is returned after progressive trimming dropped every block,
\* under a header less than 100 bytes below the budget.
C1_Witness ==
  /\ dgPc = "done"
  /\ Len(dgSorted) > 0
  /\ Len(dgAllBlocks) = Len(dgSorted)
  /\ dgBlocks = << >>
  /\ HeaderBytes > MAX_OUTPUT_BYTES - 100

\* C2: scrape_site returns a result only with at least one page; when both engines yield
\* no page it raises, and the handler then answers with an "error" field and the error
\* notice, never with a digest of page_count 0
C2_NoEmptySuccess ==
  /\ ssResult.status = "returned" => Len(ssResult.pages) >= 1
  /\ (ssPc \in {"handler", "done"} /\ rqPages = << >> /\ spPages = << >>)
       => ssResult.status = "raised"
  /\ (ssPc = "done" /\ ssResult.status = "raised")
       => /\ DOMAIN hdResponse = {"domain", "error", "content"}
          /\ hdResponse.content = <<"#"," ">> \o hdResponse.domain \o <<"\n","\n","E","r","r","o","r",":"," ","c","o","u","l","d"," ","n","o","t"," ","s","c","r","a","p","e"," ","t","h","i","s"," ","w","e","b","s","i","t","e",".">>
  /\ (ssPc = "done" /\ "page_count" \in DOMAIN hdResponse) => hdResponse.page_count >= 1

\* C2 witness: the primary engine got a homepage but no page, the spider ran and retained
\* nothing, and the handler has answered with the error
C2_Witness ==
  /\ ssPc = "done" /\ ssResult.status = "raised"
  /\ rqNavLinks # << >> /\ rqPages = << >>
  /\ spScraped = {} /\ spSeen = {} /\ hdResponse.error # ""
  /\ crSite.hrefs # << >>

C4_UniqueNormalizedUrls ==
  ssResult.status = "returned" =>
    \A i, j \in 1..Len(ssResult.pages) :
      NormalizeUrl(ssResult.pages[i]) = NormalizeUrl(ssResult.pages[j]) => i = j

\* the category the handler gives the k-th page of the crawl
RawCategory(k) == categorize_page(dgRaw[k].url, dgRaw[k])

\* the k-th page of the crawl is among the retained pages
Retained(k) == \E i \in 1..Len(dgPages) : dgPages[i].url = dgRaw[k].url

\* C5: after the category-level dedup no two retained pages share a category other than
\* "product" and "other"; a page of another category is retained exactly when it is the
\* first of its category in crawl order; every "product" and "other" page is retained.
C5_CategoryDedup ==
  dgPc \notin {"idle", "categorize", "dedup"} =>
    /\ \A i, j \in 1..Len(dgPages) :
         (i < j /\ dgPages[i].category = dgPages[j].category)
           => dgPages[i].category \in {"product", "other"}
    /\ \A k \in 1..Len(dgRaw) :
         Retained(k) <=> (\/ RawCategory(k) \in {"product", "other"}
                          \/ \A j \in 1..(k - 1) : RawCategory(j) # RawCategory(k))
    /\ \A i \in 1..Len(dgPages) : dgPages[i].category = categorize_page(dgPages[i].url, dgPages[i])

\* C5 witness: the dedup dropped the second pricing page of a crawl of three pages and
\* kept the first one and a product page.
C5_Witness ==
  /\ dgPc = "build"
  /\ Len(dgRaw) = 3
  /\ Len(dgPages) = 2
  /\ \E i, j \in 1..Len(dgPages) : dgPages[i].category = "pricing" /\ dgPages[j].category = "product"
  /\ \E k \in 2..3 : RawCategory(k) = "pricing" /\ ~Retained(k)

\* block is line, or line trimmed: a prefix of line followed by "..."
IsTrimOf(block, line) ==
  \/ block = line
  \/ /\ Len(block) >= 3
     /\ SubSeq(block, Len(block) - 2, Len(block)) = <<".",".",".">>
     /\ Len(block) - 3 <= Len(line)
     /\ SubSeq(block, 1, Len(block) - 3) = SubSeq(line, 1, Len(block) - 3)

\* C6: the blocks of the digest follow the pages sorted by non-decreasing priority rank,
\* pages of equal rank in crawl order, and the blocks that survive progressive trimming
\* are a prefix of that list.
C6_PriorityOrder ==
  /\ \A a, b \in 1..Len(dgSorted) :
       a < b => \/ _priority(dgPages[dgSorted[a]].category) < _priority(dgPages[dgSorted[b]].category)
                \/ /\ _priority(dgPages[dgSorted[a]].category) = _priority(dgPages[dgSorted[b]].category)
                   /\ dgSorted[a] < dgSorted[b]
  /\ dgPc \in {"page", "trim", "assemble", "drop", "done"} =>
       {dgSorted[a] : a \in 1..Len(dgSorted)} = 1..Len(dgPages)
  /\ Len(dgAllBlocks) <= Len(dgSorted)
  /\ \A k \in 1..Len(dgAllBlocks) :
       IsTrimOf(dgAllBlocks[k], PageLine(dgPages[dgSorted[k]], dgSummaries[k]))
  /\ Len(dgBlocks) <= Len(dgAllBlocks)
  /\ dgBlocks = SubSeq(dgAllBlocks, 1, Len(dgBlocks))
  /\ (dgPc \in {"drop", "done"} /\ Len(dgSorted) > 0) => dgContent = AssembleContent(dgHeader, dgBlocks)

\* C6 witness: a digest is returned in which two pages of equal rank follow a page of
\* higher rank that came later in the crawl, and trimming dropped the last block only.
C6_Witness ==
  /\ dgPc = "done"
  /\ Len(dgSorted) = 3
  /\ Len(dgBlocks) = 2
  /\ dgSorted[1] > dgSorted[2]
  /\ dgPages[dgSorted[2]].category = dgPages[dgSorted[3]].category

RECURSIVE AllSentences(_)
\* the sentences of the summaries, in block order
AllSentences(summaries) ==
  IF summaries = << >> THEN << >>
  ELSE _split_sentences(Head(summaries)) \o AllSentences(Tail(summaries))

\* C7: while the digest is assembled, no sentence kept in a block's summary has a
\* word-overlap ratio above 0.5 with a sentence kept earlier, in the same block or in an
\* earlier one.
C7_NoOverlappingSentences ==
  LET kept == AllSentences(dgSummaries) IN
  \A a, b \in 1..Len(kept) : a < b => ~ExceedsHalf(_sentence_overlap(kept[b], kept[a]))

\* C7 witness: the shared pool removed a sentence from the summary of a later block.
C7_Witness ==
  /\ Len(dgSummaries) >= 2
  /\ \E k \in 2..Len(dgSummaries) :
       /\ dgSummaries[k] # << >>
       /\ Len(_split_sentences(dgSummaries[k]))
            < Len(_split_sentences(_extract_best_summary(dgPages[dgSorted[k]])))

\* C8: _deduplicate_text applied to its own output, from the pool the first run started
\* from, returns that output unchanged.
C8_DedupIdempotent == ddPc = "twice" => ddOut2 = ddOut1

\* C8 witness: the first run removed a sentence and kept two, and the second run is done.
C8_Witness ==
  /\ ddPc = "twice"
  /\ Len(_split_sentences(ddOut1)) = 2
  /\ Len(_split_sentences(ddText)) = 3
  /\ ddSeen # << >>

\* the homepage paths as the specification lists them
ClaimedHomepagePath(path) ==
  \/ path = << >>
  \/ path = <<"h","o","m","e">>
  \/ path = <<"i","n","d","e","x">>
  \/ path = <<"i","n","d","e","x",".","h","t","m","l">>
  \/ (Len(path) <= 3 /\ \A i \in 1..Len(path) : IsAlphaChar(path[i]))

\* C9: whenever the normalized path is empty, "home", "index", "index.html" or at most
\* three alphabetic characters, categorize_page returns "home", whatever keywords the
\* path and the content hold.
C9_HomepagePrecedence ==
  (catPc = "done" /\ ClaimedHomepagePath(NormalizedPath(catUrl))) => catResult = "home"

\* C9 witness: the path "faq" is a URL keyword and the title holds a content keyword, and
\* the page is categorized "home".
C9_Witness ==
  /\ catPc = "done"
  /\ NormalizedPath(catUrl) = <<"f","a","q">>
  /\ catContent.title = <<"P","r","i","c","i","n","g">>
  /\ catResult = "home"

\* C10: for the body text "Get started today. Our platform helps teams ship faster."
\* _remove_boilerplate(_clean_text(text)) is "Our platform helps teams ship faster.".
C10_ScenarioD ==
  (textPc = "done" /\ textIn = ScenarioD) => textOut = <<"O","u","r"," ","p","l","a","t","f","o","r","m"," ","h","e","l","p","s"," ","t","e","a","m","s"," ","s","h","i","p"," ","f","a","s","t","e","r",".">>

\* C11: in a crawl of a site whose every response has a content type that is not HTML,
\* neither engine retains a page: the primary engine ends without a page, and once the
\* spider has run too scrape_site has raised and the handler answers with the error.
C11_NonHtmlNeverRetained ==
  ~IsHtmlType(crSite.ctype) =>
    /\ rqPages = << >>
    /\ spPages = << >>
    /\ ssPc \in {"handler", "done"} => ssResult.status = "raised"
    /\ ssPc = "done" => "error" \in DOMAIN hdResponse

\* C12: the domain of the handler's response is the network location of the url that
\* scrape_site crawled.
C12_DomainIsCrawledNetloc ==
  ssPc = "done" => hdResponse.domain = UrlNetloc(ssUrl)

\* C13: for every allowance _build_output computes, the truncation loop of _build_page_line
\* terminates (it never stands at a line that is over the allowance and that a turn of the
\* loop leaves as it is), and the block it returns is no longer than the allowance.
C13_TrimTerminates ==
  /\ (dgPc = "trim" /\ NeedsTrim(dgLine, dgBudget)) => TrimOnce(dgLine) # dgLine
  /\ \A k \in 1..Len(dgAllBlocks) : Utf8Len(dgAllBlocks[k]) <= PageBudget(dgBase, k - 1)

\* C14: the engines run one after the other.  scrape_site goes on to the fallback engine
\* only from the end of the primary engine's run (its exception at the homepage, or its
\* return) and only with no page collected; from there its next step starts the spider; a
\* primary run that returns pages goes to the handler and never to the spider; the
\* primary engine's variables change only during its run and the spider's only during
\* the fallback.
C14_EnginesInSequence ==
  [][ /\ (ssPc' = "scrapy" /\ ssPc # "scrapy")
           => (ssPc \in {"requests", "requests_end"} /\ rqPages' = << >>)
      /\ (ssPc = "requests" /\ ssPc' \notin {"requests", "requests_loop"}) => ssPc' = "scrapy"
      /\ (ssPc = "requests_end" /\ ssPc' # ssPc)
           => (IF rqPages = << >> THEN ssPc' = "scrapy" ELSE ssPc' = "handler")
      /\ (ssPc = "scrapy" /\ ssPc' # ssPc) => ssPc' = "spider"
      /\ (ssPc' = "spider" /\ ssPc # "spider") => (ssPc = "scrapy" /\ rqPages = << >>)
      /\ rqVars' # rqVars => ssPc \in {"requests", "requests_loop"}
      /\ spVars' # spVars => ssPc \in {"scrapy", "spider"}
    ]_vars

\* C14 witness: the primary engine visited its links and collected no page, and the spider,
\* started after it, has retained a page.
C14_Witness ==
  /\ ssPc = "spider"
  /\ Len(rqNavLinks) >= 2 /\ rqIdx > Len(rqNavLinks) /\ rqPages = << >>
  /\ spPages # << >>

\* C15: an iteration of the primary loop keeps the links and goes to the next one; it
\* leaves the collected pages as they are or appends the page of its link; when it appends
\* nothing the loop goes on to the remaining links (and ends only after the last one); it
\* never touches the spider or the result.  A run that ends with at least one page returns
\* its pages to the handler.
C15_FailedPageIsSkipped ==
  [][ /\ ssPc = "requests_loop" =>
           /\ rqNavLinks' = rqNavLinks /\ rqIdx' = rqIdx + 1
           /\ rqPages' \in {rqPages, Append(rqPages, rqNavLinks[rqIdx])}
           /\ rqPages' = rqPages =>
                ssPc' = IF rqIdx = Len(rqNavLinks) THEN "requests_end" ELSE "requests_loop"
           /\ spVars' = spVars /\ ssResult' = ssResult
      /\ (ssPc = "requests_end" /\ rqPages # << >>) =>
           /\ ssPc' = "handler"
           /\ ssResult' = [status |-> "returned", pages |-> rqPages]
    ]_vars

\* C15 witness: the page of the first link (the homepage) failed, a later link gave a page,
\* and scrape_site returned the pages of the primary engine with the spider never started.
C15_Witness ==
  /\ ssPc = "handler" /\ ssResult.status = "returned"
  /\ rqPages # << >> /\ rqPages[1] # rqNavLinks[1]
  /\ ssResult.pages = rqPages
  /\ spQueue = << >> /\ spPages = << >>

\* the rows of a rule table that have a keyword inside text
RuleHits(rules, text) ==
  {i \in 1..Len(rules) : \E k \in 1..Len(rules[i].kws) : Contains(text, rules[i].kws[k])}

\* the least row of a non-empty set of rows
FirstRow(rows) == CHOOSE i \in rows : \A j \in rows : i <= j

\* the 16 categories
Categories ==
  {"home", "other"} \cup {URL_RULES[i].cat : i \in 1..Len(URL_RULES)}
    \cup {CONTENT_RULES[i].cat : i \in 1..Len(CONTENT_RULES)}

\* C16: for a path that is not a homepage path categorize_page returns the category of the
\* first URL_RULES row with a keyword inside the path; with no such row, the category of the
\* first CONTENT_RULES row with a keyword inside the lowercased "title h1 meta headings";
\* with no such row either, "product" when a path segment starts with a product prefix and
\* "other" when none does; the result is one of the 16 categories.
C16_FirstMatchCascade ==
  (catPc = "done" /\ ~IsHomepagePath(NormalizedPath(catUrl))) =>
    LET path == NormalizedPath(catUrl)
        text == LowerStr(catContent.title \o <<" ">> \o catContent.h1 \o <<" ">>
                  \o catContent.meta_description \o <<" ">> \o Join(catContent.headings, <<" ">>))
        byUrl == RuleHits(URL_RULES, path)
        byContent == RuleHits(CONTENT_RULES, text)
        expected ==
          IF byUrl # {} THEN URL_RULES[FirstRow(byUrl)].cat
          ELSE IF byContent # {} THEN CONTENT_RULES[FirstRow(byContent)].cat
          ELSE IF SegmentHeuristic(path) THEN "product"
          ELSE "other"
    IN /\ catResult = expected
       /\ catResult \in Categories
       /\ Cardinality(Categories) = 16

\* C16 witness: the path "team/plans" holds a keyword of the rows "pricing" and "about" and
\* the h1 a content keyword of "about"; the page is categorized "pricing".
C16_Witness ==
  /\ catPc = "done"
  /\ NormalizedPath(catUrl) = <<"t","e","a","m","/","p","l","a","n","s">>
  /\ catContent.h1 = <<"A","b","o","u","t"," ","U","s">>
  /\ catResult = "pricing"

\* C17: when the homepage has nav-like elements and these hold no http(s) link of the
\* domain, the links the primary engine discovers are the links of the domain among all
\* the anchors of the page, de-duplicated and in document order (with the homepage put
\* first when it is not among them).
C17_FallsBackToAllAnchors ==
  LET base_url == BaseUrl(ssUrl) IN
  (rqNavLinks # << >> /\ crSite.regions /\ NavLinksLoop(crSite.navHrefs, base_url, << >>) = << >>)
    => rqNavLinks = WithHomepage(NavLinksLoop(crSite.hrefs, base_url, << >>), base_url)

\* the sentences of the summary of the k-th page in priority order that the shared pool removed
RemovedSentences(k) ==
  {s \in Range(_split_sentences(_extract_best_summary(dgPages[dgSorted[k]]))) :
     s \notin Range(_split_sentences(dgSummaries[k]))}

\* the sentences kept in the summary of page j that sentence s overlaps by more than 0.5
OverlappedIn(s, j) ==
  {e \in Range(_split_sentences(dgSummaries[j])) : ExceedsHalf(_sentence_overlap(s, e))}

\* C18: in the returned digest, a sentence removed from a block because it overlaps only
\* sentences of earlier pages in priority order has such a sentence still standing in the
\* earlier page's block, and every removed sentence overlaps a sentence kept in its own or an
\* earlier block (never only one of a later page).
C18_EarlierPageKeepsSentence ==
  dgPc = "done" =>
    \A k \in 1..Len(dgBlocks) : \A s \in RemovedSentences(k) :
      /\ \E j \in 1..k : OverlappedIn(s, j) # {}
      /\ OverlappedIn(s, k) = {} =>
           \E j \in 1..(k - 1) : \E e \in OverlappedIn(s, j) : Contains(dgBlocks[j], e)
(***************************************************************************)
(* Specifications                                                          *)
(***************************************************************************)
CatNext == Categorize /\ UNCHANGED <<textVars, dedupVars, digestVars, crawlVars>>

\* one call of categorize_page
InitCat == CatInit /\ TextIdle /\ DedupIdle /\ DigestIdle /\ CrawlIdle

SpecCat == InitCat /\ [][CatNext]_vars

TextNext ==
  \/ CleanText /\ UNCHANGED <<catVars, dedupVars, digestVars, crawlVars>>
  \/ RemoveBoilerplate /\ UNCHANGED <<catVars, dedupVars, digestVars, crawlVars>>

\* the text cleaning of one page body
InitText == TextInit /\ CatIdle /\ DedupIdle /\ DigestIdle /\ CrawlIdle

SpecText == InitText /\ [][TextNext]_vars

DedupNext ==
  \/ DedupFirst /\ UNCHANGED <<catVars, textVars, digestVars, crawlVars>>
  \/ DedupSecond /\ UNCHANGED <<catVars, textVars, digestVars, crawlVars>>

\* _deduplicate_text run twice
InitDedup == DedupInit /\ CatIdle /\ TextIdle /\ DigestIdle /\ CrawlIdle

SpecDedup == InitDedup /\ [][DedupNext]_vars

DigestNext ==
  \/ DgCategorize /\ UNCHANGED <<catVars, textVars, dedupVars, crawlVars>>
  \/ DgDedup /\ UNCHANGED <<catVars, textVars, dedupVars, crawlVars>>
  \/ DgReturnHeader /\ UNCHANGED <<catVars, textVars, dedupVars, crawlVars>>
  \/ DgStart /\ UNCHANGED <<catVars, textVars, dedupVars, crawlVars>>
  \/ DgBuildLine /\ UNCHANGED <<catVars, textVars, dedupVars, crawlVars>>
  \/ DgTrim /\ UNCHANGED <<catVars, textVars, dedupVars, crawlVars>>
  \/ DgAppend /\ UNCHANGED <<catVars, textVars, dedupVars, crawlVars>>
  \/ DgAssemble /\ UNCHANGED <<catVars, textVars, dedupVars, crawlVars>>
  \/ DgDrop /\ UNCHANGED <<catVars, textVars, dedupVars, crawlVars>>
  \/ DgReturn /\ UNCHANGED <<catVars, textVars, dedupVars, crawlVars>>

\* the /scrape handler from the categorization on
InitDigest == DigestInit /\ CatIdle /\ TextIdle /\ DedupIdle /\ CrawlIdle

SpecDigest == InitDigest /\ [][DigestNext]_vars

CrawlNext ==
  \/ SsStart /\ UNCHANGED <<catVars, textVars, dedupVars, digestVars>>
  \/ RqHomepage /\ UNCHANGED <<catVars, textVars, dedupVars, digestVars>>
  \/ RqVisit /\ UNCHANGED <<catVars, textVars, dedupVars, digestVars>>
  \/ RqReturn /\ UNCHANGED <<catVars, textVars, dedupVars, digestVars>>
  \/ SpStart /\ UNCHANGED <<catVars, textVars, dedupVars, digestVars>>
  \/ SpDownload /\ UNCHANGED <<catVars, textVars, dedupVars, digestVars>>
  \/ SpRedirect /\ UNCHANGED <<catVars, textVars, dedupVars, digestVars>>
  \/ SpHandleError /\ UNCHANGED <<catVars, textVars, dedupVars, digestVars>>
  \/ SpParseHomepage /\ UNCHANGED <<catVars, textVars, dedupVars, digestVars>>
  \/ SpResume /\ UNCHANGED <<catVars, textVars, dedupVars, digestVars>>
  \/ SpParsePage /\ UNCHANGED <<catVars, textVars, dedupVars, digestVars>>
  \/ SpClosed /\ UNCHANGED <<catVars, textVars, dedupVars, digestVars>>
  \/ SpTimeout /\ UNCHANGED <<catVars, textVars, dedupVars, digestVars>>
  \/ HdRespond /\ UNCHANGED <<catVars, textVars, dedupVars, digestVars>>

\* one /scrape request from the crawl to the response
InitCrawl == CrawlInit /\ CatIdle /\ TextIdle /\ DedupIdle /\ DigestIdle

SpecCrawl == InitCrawl /\ [][CrawlNext]_vars

\* one /scrape request from the crawl to the response, and the spider's crawl of the
\* large site from where it is taken up
InitCap == (CrawlInit \/ SpiderMidCrawl) /\ CatIdle /\ TextIdle /\ DedupIdle /\ DigestIdle

SpecCap == InitCap /\ [][CrawlNext]_vars

=============================================================================
